---- MODULE Spec2Model ----
(***************************************************************************)
(* Model of the chandas (Sanskrit meter) identification controller,        *)
(* src/controllers/chandas_controller.py: the factory                      *)
(* get_chandas_controller and the coroutine                                *)
(* ChandasController.identify_chandas, which validates the verse, looks it *)
(* up in the KNOWN_METERS table, asks the LLM, re-prompts once when an     *)
(* "Anushtubh" answer contradicts its own syllable counts, and reconciles  *)
(* the answer with the known-verse entry.                                  *)
(*                                                                         *)
(* Representation.                                                         *)
(*  - A Python str is a sequence of chunks.  A chunk is a maximal piece of *)
(*    text the inputs are built from, written in ASCII transliteration:    *)
(*    " " is one space, "dharmakshetre" and "kurukshetre" are the two      *)
(*    words of the opening of Gita 1.1, "yada yada hi dharmasya" is the    *)
(*    whole opening of Gita 4.7.  No chunk of the input vocabulary occurs  *)
(*    inside another, so substring containment of the Devanagari strings   *)
(*    is containment of contiguous chunk sequences.                        *)
(*  - A JSON object (Python dict) is a function from its keys to values.   *)
(*  - A confidence is an integer number of hundredths: 80 is 0.8.          *)
(*                                                                         *)
(* Further components, each with a specification of its own:               *)
(*  - ServiceSpec: ChandasService.identify_metre,                          *)
(*    src/services/chandas_service.py, over the outcomes of the            *)
(*    stuti.chandas library it delegates to.                               *)
(*  - RouteSpec: the POST /chandas/identify handler,                       *)
(*    src/routes/chandas_routes.py, on top of the controller.              *)
(*  - MatcherSpec, GanaSpec, SegmenterSpec: the deterministic engine of    *)
(*    specification sections 4.2 to 4.5, which has no source under src/    *)
(*    and is written from the specification: syllables and weights over    *)
(*    an abstract character alphabet, ganas, and the two-stage matcher     *)
(*    over scaled-down catalogs.  Its confidences are ratios.              *)
(*  - ConcurrentSpec: two identify_chandas calls on one controller,       *)
(*    interleaved at their awaits.                                         *)
(*  - MeaningSpec: get_meaning_controller,                                 *)
(*    src/controllers/meaning_controller.py, called from several threads.  *)
(*  - ParserSpec: MeaningController._parse_llm_response over response      *)
(*    texts built from fence markers, prose and JSON documents.            *)
(*  - ChatSpec: the POST /api/v1/chat handler,                             *)
(*    src/routes/chatbot_routes.py, and the temporary files it creates.    *)
(***************************************************************************)
EXTENDS Integers, Sequences, FiniteSets, TLC

VARIABLES
    pc,             \* position of the request: "factory", "ready", "await1", "await2", "done"
    client_arg,     \* the openai_client argument given to get_chandas_controller
    openai_client,  \* ChandasController.openai_client
    text,           \* the argument of identify_chandas
    known_meter,    \* local known_meter
    identified_by,  \* local identified_by
    messages,       \* local messages (the conversation list)
    content,        \* local content (raw text of the last completion)
    result,         \* local result (the decoded JSON)
    outcome,        \* how identify_chandas ended: returned result or HTTPException
    llm_requests,   \* the message lists the LLM collaborator was called with
    llm_replies,    \* what each of those calls produced
    verse,          \* the argument of ChandasService.identify_metre
    library,        \* what the stuti.chandas library does for that call
    metre_info,     \* what ChandasService.identify_metre returned
    request,        \* the body of POST /chandas/identify
    response,       \* what the route answered
    catalog,        \* the Matcher's meter catalog
    verse_weights,  \* the Matcher's input: the weight pattern of each pada
    match,          \* what the Matcher returned
    weight_pattern, \* the Gana Deriver's input: the weight pattern of one pada
    gana,           \* what the Gana Deriver returned
    verse_text,     \* the Segmenter's input: the padas of a normalized verse
    analysis,       \* syllables, weights and counts computed for verse_text
    suspended,      \* the frame of a second identify_chandas call on the same
                    \* controller while the call of the variables above runs
    _meaning_controller, \* the module global of meaning_controller.py: 0 is None,
                    \* n > 0 the n-th MeaningController constructed
    constructed,    \* how many MeaningController objects were constructed
    thread_pc,      \* where each thread is in get_meaning_controller
    thread_new,     \* the object a thread constructed and has not yet assigned
    received,       \* what get_meaning_controller returned to each thread, per call
    chat_pc,        \* where the chat route is: idle, read, process, done
    chat_args,      \* the form fields and uploads of the chat request
    audio_path,     \* the route's local audio_path
    image_path,     \* the route's local image_path
    temp_files,     \* the temporary files that exist on disk
    chat_outcome,   \* how the chat route ended
    response_text,  \* the argument of MeaningController._parse_llm_response
    parsed          \* how _parse_llm_response ended, and what it returned

controller_vars ==
    <<pc, client_arg, openai_client, text, known_meter, identified_by,
      messages, content, result, outcome, llm_requests, llm_replies>>

service_vars == <<verse, library, metre_info>>

route_vars == <<request, response>>

matcher_vars == <<catalog, verse_weights, match>>

gana_vars == <<weight_pattern, gana>>

segmenter_vars == <<verse_text, analysis>>

engine_vars == <<matcher_vars, gana_vars, segmenter_vars>>

scheduler_vars == <<suspended>>

meaning_vars ==
    <<_meaning_controller, constructed, thread_pc, thread_new, received>>

chat_vars ==
    <<chat_pc, chat_args, audio_path, image_path, temp_files, chat_outcome>>

parser_vars == <<response_text, parsed>>

rest_vars == <<meaning_vars, chat_vars, parser_vars>>

aux_vars == <<scheduler_vars, rest_vars>>

vars == <<controller_vars, service_vars, route_vars, engine_vars, aux_vars>>

----------------------------------------------------------------------------
(* Bounds of the model *)

\* longest input text, in chunks
MaxTextLen == 4

\* most padas of a verse given to the Matcher
MaxPadas == 2

\* most syllables of one such pada
MaxPadaLen == 2

\* most meters of a catalog
MaxCatalog == 2

\* longest weight pattern of a pada given to the Gana Deriver
MaxPatternLen == 7

\* most characters of a verse given to the Segmenter, over all its padas
MaxVerseTokens == 4

\* threads calling get_meaning_controller
NumThreads == 2

\* most calls of get_meaning_controller by one thread
MaxCalls == 2

\* most chunks of a response text given to _parse_llm_response
MaxResponseChunks == 4

----------------------------------------------------------------------------
(* Text *)

SP == " "
Whitespace ==
    {" ", "\n", "\t", "\r", "\f", "U+000B", "U+001C", "U+001D", "U+001E", "U+001F",
     "U+0085", "U+00A0", "U+1680", "U+2000", "U+2001", "U+2002", "U+2003",
     "U+2004", "U+2005", "U+2006", "U+2007", "U+2008", "U+2009", "U+200A",
     "U+2028", "U+2029", "U+202F", "U+205F", "U+3000"}

\* chunks the input texts are built from
Vocabulary == {SP, "dharmakshetre", "kurukshetre", "yada yada hi dharmasya"}

RECURSIVE SeqsUpTo(_, _)
SeqsUpTo(S, n) ==
    IF n = 0 THEN {<<>>}
    ELSE LET shorter == SeqsUpTo(S, n - 1)
         IN  shorter \cup {Append(s, c) : s \in {t \in shorter : Len(t) = n - 1}, c \in S}

\* the arguments identify_chandas is called with: any str, or an object that is not a str
TextArgs ==
    {[type |-> "str", value |-> s] : s \in SeqsUpTo(Vocabulary, MaxTextLen)}
        \cup {[type |-> "object", value |-> <<>>]}

RECURSIVE LStrip(_)
LStrip(s) == IF s # <<>> /\ Head(s) \in Whitespace THEN LStrip(Tail(s)) ELSE s

RECURSIVE RStrip(_)
RStrip(s) ==
    IF s # <<>> /\ s[Len(s)] \in Whitespace THEN RStrip(SubSeq(s, 1, Len(s) - 1)) ELSE s

\* str.strip()
Strip(s) == RStrip(LStrip(s))

\* sub in s
Contains(sub, s) ==
    \E i \in 0..(Len(s) - Len(sub)) : SubSeq(s, i + 1, i + Len(sub)) = sub

----------------------------------------------------------------------------
(* The known-verse table *)

None == "None"

KNOWN_METERS == <<
    [verse_start |-> <<"yada yada hi dharmasya">>, meter |-> "Trishtubh"],
    [verse_start |-> <<"karmanyevadhikaraste">>, meter |-> "Anushtubh"],
    [verse_start |-> <<"vasamsi", SP, "jirnani", SP, "yatha">>, meter |-> "Trishtubh"],
    [verse_start |-> <<"kurukshetre", SP, "mahakshetre">>, meter |-> "Sragdhara"],
    [verse_start |-> <<"ma", SP, "nishada", SP, "pratishtham">>, meter |-> "Shardula-vikridita"],
    [verse_start |-> <<"dharmakshetre", SP, "kurukshetre">>, meter |-> "Anushtubh"],
    [verse_start |-> <<"shraddhavamllabhate", SP, "jnanam">>, meter |-> "Anushtubh"],
    [verse_start |-> <<"yogasthah", SP, "kuru", SP, "karmani">>, meter |-> "Anushtubh"],
    [verse_start |-> <<"bahunam", SP, "janmanamante">>, meter |-> "Anushtubh"],
    [verse_start |-> <<"manah", SP, "prasadah", SP, "saumyatvam">>, meter |-> "Anushtubh"],
    [verse_start |-> <<"ashvatthah", SP, "sarvavrikshanam">>, meter |-> "Trishtubh"],
    [verse_start |-> <<"dvadasha", SP, "pradhayashchakrasya">>, meter |-> "Jagati"] >>

\* indices of the table entries whose opening is contained in the stripped text
MatchingEntries(s) ==
    {i \in 1..Len(KNOWN_METERS) : Contains(KNOWN_METERS[i].verse_start, Strip(s))}

Min(a, b) == IF a <= b THEN a ELSE b

SetMin(S) == CHOOSE x \in S : \A y \in S : x <= y

SetMax(S) == CHOOSE x \in S : \A y \in S : y <= x

\* variant of KnownVerseLookup: the loop has no break, so the last entry contained wins
KnownVerseLookup_LastMatch(s) ==
    LET hits == MatchingEntries(s)
    IN  IF hits = {}
        THEN [known_meter |-> None, identified_by |-> "LLM"]
        ELSE [known_meter |-> KNOWN_METERS[SetMax(hits)].meter,
              identified_by |-> "known_verse"]

\* the for loop over KNOWN_METERS.items(): the first entry contained in the text wins
KnownVerseLookup(s) ==
    LET hits == MatchingEntries(s)
    IN  IF hits = {}
        THEN [known_meter |-> None, identified_by |-> "LLM"]
        ELSE [known_meter |-> KNOWN_METERS[SetMin(hits)].meter,
              identified_by |-> "known_verse"]

----------------------------------------------------------------------------
(* JSON values and the LLM collaborator's replies *)

\* dict.get(k, default)
Get(d, k, default) == IF k \in DOMAIN d THEN d[k] ELSE default

\* d[k] = v
Put(d, k, v) == [x \in (DOMAIN d) \cup {k} |-> IF x = k THEN v ELSE d[x]]

\* the dict without key k (a reply that leaves a field out)
Drop(d, k) == [x \in (DOMAIN d) \ {k} |-> d[x]]

\* the local result before anything was decoded
NoResult == <<>>

\* the list of required keys of the first reply
Required ==
    {"chandas_name", "syllable_breakdown", "laghu_guru_pattern", "gana_pattern",
     "syllable_count_per_pada", "confidence", "explanation", "identification_process"}

\* meter names a reply can carry
MeterNames == {"Anushtubh", "Trishtubh", "Jagati"}

\* syllable_count_per_pada values a reply can carry
PadaCounts ==
    {<<>>, <<8, 8, 8, 8>>, <<12, 12, 12, 12>>, <<11, 11, 11, 11>>, <<11, 12, 11, 12>>}

\* a complete answer in the format the system prompt asks for
Answer(name, counts, conf) ==
    [chandas_name |-> name,
     syllable_breakdown |-> "syllable_breakdown",
     laghu_guru_pattern |-> "laghu_guru_pattern",
     gana_pattern |-> "gana_pattern",
     syllable_count_per_pada |-> counts,
     confidence |-> conf,
     explanation |-> <<"explanation">>,
     identification_process |-> "identification_process"]

\* every meter name with every count at confidence 0.8, and two answers at
\* 0.95 (confidences are in hundredths)
CompleteAnswers ==
    {Answer(n, c, 80) : n \in MeterNames, c \in PadaCounts}
        \cup {Answer("Anushtubh", <<12, 12, 12, 12>>, 95),
              Answer("Trishtubh", <<11, 11, 11, 11>>, 95)}

\* answers that leave one required field out
IncompleteAnswers ==
    {Drop(Answer("Anushtubh", <<8, 8, 8, 8>>, 80), k) : k \in Required}

\* complete answers whose confidence lies outside 0.0 .. 1.0
OutOfRangeAnswers ==
    {Answer("Anushtubh", <<8, 8, 8, 8>>, f) : f \in {-50, 150}}
        \cup {Answer("Trishtubh", <<11, 11, 11, 11>>, f) : f \in {-50, 150}}

\* a JSON array that holds the eight required names as strings
RequiredNames ==
    <<"chandas_name", "syllable_breakdown", "laghu_guru_pattern", "gana_pattern",
      "syllable_count_per_pada", "confidence", "explanation", "identification_process">>

\* a decoded JSON array (or string): its members in order
JsonArray(members) == [members |-> members]

\* what one chat.completions.create call can produce: it raises (timeout,
\* transport failure), or returns text that is not JSON, JSON that is not an
\* object (a number, null or boolean; an array or string, empty or holding
\* the required names), or a JSON object
Replies ==
    {[kind |-> "raise", value |-> NoResult],
     [kind |-> "invalid", value |-> NoResult],
     [kind |-> "number", value |-> NoResult],
     [kind |-> "array", value |-> JsonArray(<<>>)],
     [kind |-> "array", value |-> JsonArray(RequiredNames)]}
        \cup {[kind |-> "object", value |-> o] :
                o \in CompleteAnswers \cup IncompleteAnswers \cup OutOfRangeAnswers}

\* json.loads(content)
JsonLoads(c) ==
    IF c.kind = "invalid"
    THEN [ok |-> FALSE, is_dict |-> FALSE, kind |-> c.kind, value |-> NoResult]
    ELSE [ok |-> TRUE, is_dict |-> (c.kind = "object"), kind |-> c.kind,
          value |-> c.value]

\* `k not in result` raises TypeError: the decoded value is a number, null or
\* a boolean
NotIterable(decoded) == decoded.ok /\ decoded.kind = "number"

\* missing = [k for k in required if k not in result], for a dict (its keys)
\* and for an array or string (its members)
Missing(decoded) ==
    IF decoded.is_dict
    THEN {k \in Required : k \notin DOMAIN decoded.value}
    ELSE {k \in Required :
            \A i \in 1..Len(decoded.value.members) : decoded.value.members[i] # k}

----------------------------------------------------------------------------
(* The pieces of identify_chandas *)

\* how the call ended
Pending == [kind |-> "pending", status_code |-> 0, detail |-> ""]
Returned == [kind |-> "return", status_code |-> 0, detail |-> ""]
HTTPException(status, detail) ==
    [kind |-> "HTTPException", status_code |-> status, detail |-> detail]

\* variant of InvalidInput: the text is not stripped before the test
InvalidInput_NoStrip(t) == t.type # "str" \/ t.value = <<>>

\* not text or not isinstance(text, str) or not text.strip()
InvalidInput(t) == t.type # "str" \/ t.value = <<>> \/ Strip(t.value) = <<>>

\* the system prompt: the fixed rules, the note naming the known meter when
\* there is one, and the fixed description of the JSON format
SystemPrompt(km) ==
    <<"rules">> \o (IF km # None THEN <<"NOTE: known meter", km>> ELSE <<>>) \o <<"format">>

\* messages = [system, user]
InitialMessages(t, km) ==
    <<[role |-> "system", content |-> SystemPrompt(km)],
      [role |-> "user", content |-> Strip(t.value)]>>

All(counts, n) == \A i \in 1..Len(counts) : counts[i] = n

\* variant of NeedsReverify: absent counts count as a mismatch
NeedsReverify_NoEmptyCheck(res) ==
    /\ Get(res, "chandas_name", None) = "Anushtubh"
    /\ Get(res, "syllable_count_per_pada", <<>>) # <<8, 8, 8, 8>>

\* the self-verification test: an Anushtubh answer whose own counts are
\* present and are not 8-8-8-8
NeedsReverify(res) ==
    /\ Get(res, "chandas_name", None) = "Anushtubh"
    /\ LET pada_counts == Get(res, "syllable_count_per_pada", <<>>)
       IN  pada_counts # <<>> /\ pada_counts # <<8, 8, 8, 8>>

\* variant of CorrectMeterHint: one count of 12 or 11 is enough for the hint
CorrectMeterHint_Any(pada_counts) ==
    IF \E i \in 1..Len(pada_counts) : pada_counts[i] = 12 THEN "Jagati (12-12-12-12)"
    ELSE IF \E i \in 1..Len(pada_counts) : pada_counts[i] = 11
    THEN "Trishtubh (11-11-11-11)"
    ELSE ""

\* correct_meter_hint
CorrectMeterHint(pada_counts) ==
    IF All(pada_counts, 12) THEN "Jagati (12-12-12-12)"
    ELSE IF All(pada_counts, 11) THEN "Trishtubh (11-11-11-11)"
    ELSE ""

\* reverify_prompt
ReverifyPrompt(pada_counts) ==
    [template |-> "This is NOT Anushtubh",
     pada_counts |-> pada_counts,
     hint |-> CorrectMeterHint(pada_counts)]

\* variant of RepromptMessages: the corrective prompt is appended before the
\* assistant turn
RepromptMessages_UserFirst(msgs, c, res) ==
    msgs \o <<[role |-> "user",
               content |-> ReverifyPrompt(Get(res, "syllable_count_per_pada", <<>>))],
              [role |-> "assistant", content |-> c]>>

\* the two messages.append calls before the second completion
RepromptMessages(msgs, c, res) ==
    msgs \o <<[role |-> "assistant", content |-> c],
              [role |-> "user",
               content |-> ReverifyPrompt(Get(res, "syllable_count_per_pada", <<>>))]>>

\* confidence given to an answer the known-verse entry overrides (0.9)
OverrideConfidence == 90
\* confidence assumed for an answer without one (0.8)
DefaultConfidence == 80
\* what agreement with the known-verse entry adds (0.1)
ConfidenceBoost == 10
\* the cap of the boosted confidence (1.0)
ConfidenceCap == 100

\* variant of Agree: the boosted confidence is not capped
Agree_NoCap(res) ==
    [identified_by |-> "both",
     result |-> Put(res, "confidence",
                    Get(res, "confidence", DefaultConfidence) + ConfidenceBoost)]

\* variant of Agree: the confidence is left as the LLM gave it
Agree_NoBoost(res) ==
    [identified_by |-> "both",
     result |-> Put(res, "confidence", Get(res, "confidence", DefaultConfidence))]

\* the LLM names the known meter: identified_by both, confidence raised and capped
Agree(res) ==
    [identified_by |-> "both",
     result |-> Put(res, "confidence",
                    Min(Get(res, "confidence", DefaultConfidence) + ConfidenceBoost,
                        ConfidenceCap))]

\* variant of Override: the LLM's meter name is kept
Override_KeepsLLMName(km, res) ==
    [identified_by |-> "known_verse_override",
     result |->
         Put(Put(res, "confidence", OverrideConfidence),
             "explanation",
             <<"Known verse identified as", km>> \o Get(res, "explanation", <<>>))]

\* variant of Override: the note replaces the LLM's explanation
Override_NoteReplacesExplanation(km, res) ==
    [identified_by |-> "known_verse_override",
     result |->
         Put(Put(Put(res, "chandas_name", km), "confidence", OverrideConfidence),
             "explanation", <<"Known verse identified as", km>>)]

\* the LLM names another meter: the known meter replaces it, the confidence
\* becomes 0.9 and a note is put before the explanation
Override(km, res) ==
    [identified_by |-> "known_verse_override",
     result |->
         Put(Put(Put(res, "chandas_name", km), "confidence", OverrideConfidence),
             "explanation",
             <<"Known verse identified as", km>> \o Get(res, "explanation", <<>>))]

\* variant of KnownVerseStep: the comparison is made even without a known meter
KnownVerseStep_Unguarded(km, idby, res) ==
    IF Get(res, "chandas_name", None) = km THEN Agree(res) ELSE Override(km, res)

\* if known_meter: ... else: ... ; without a known meter nothing changes
KnownVerseStep(km, idby, res) ==
    IF km # None
    THEN IF Get(res, "chandas_name", None) = km THEN Agree(res) ELSE Override(km, res)
    ELSE [identified_by |-> idby, result |-> res]

\* variant of Reconcile: the result is stamped with the identified_by that was
\* current before the known-verse step
Reconcile_StampsEarlierValue(km, idby, res) ==
    LET merged == KnownVerseStep(km, idby, res)
    IN  [identified_by |-> merged.identified_by,
         result |-> Put(merged.result, "identified_by", idby)]

\* the known-verse step followed by result["identified_by"] = identified_by:
\* the result returned and the final identified_by
Reconcile(km, idby, res) ==
    LET merged == KnownVerseStep(km, idby, res)
    IN  [identified_by |-> merged.identified_by,
         result |-> Put(merged.result, "identified_by", merged.identified_by)]

----------------------------------------------------------------------------
(* Operations *)

\* the controller before get_chandas_controller is called
InitController ==
    /\ pc = "factory"
    /\ client_arg = None
    /\ openai_client = None
    /\ text = [type |-> "str", value |-> <<>>]
    /\ known_meter = None
    /\ identified_by = None
    /\ messages = <<>>
    /\ content = [kind |-> "none", value |-> NoResult]
    /\ result = NoResult
    /\ outcome = Pending
    /\ llm_requests = <<>>
    /\ llm_replies = <<>>

\* ChandasService.identify_metre not called
IdleService ==
    /\ verse = [type |-> "str", value |-> <<>>]
    /\ library = [kind |-> "not called", value |-> <<>>]
    /\ metre_info = [kind |-> "pending", value |-> <<>>]

\* no request received by the route
IdleRoute ==
    /\ request = [shloka |-> <<>>]
    /\ response = Pending

\* a rational number num / den
Ratio(n, d) == [num |-> n, den |-> d]

\* no verse given to the Matcher
IdleMatcher ==
    /\ catalog = <<>>
    /\ verse_weights = <<>>
    /\ match = [stage |-> "pending", meterName |-> "", confidence |-> Ratio(0, 1)]

\* no pattern given to the Gana Deriver
IdleGana ==
    /\ weight_pattern = <<>>
    /\ gana = [state |-> "pending", ganaPattern |-> <<>>, remainder |-> <<>>]

\* no verse given to the Segmenter
IdleSegmenter ==
    /\ verse_text = <<>>
    /\ analysis = [state |-> "pending", syllableBreakdown |-> <<>>,
                   weightPattern |-> <<>>, syllableCountPerPada |-> <<>>,
                   skipped |-> FALSE]

IdleEngine == IdleMatcher /\ IdleGana /\ IdleSegmenter

\* the locals of an identify_chandas call that has not started
FreshFrame ==
    [pc |-> "ready",
     text |-> [type |-> "str", value |-> <<>>],
     known_meter |-> None,
     identified_by |-> None,
     messages |-> <<>>,
     content |-> [kind |-> "none", value |-> NoResult],
     result |-> NoResult,
     outcome |-> Pending,
     llm_requests |-> <<>>,
     llm_replies |-> <<>>]

\* a second call waits to be started
IdleScheduler == suspended = FreshFrame

Threads == 1..NumThreads

\* meaning_controller.py just imported: no controller yet, no call made
InitMeaning ==
    /\ _meaning_controller = 0
    /\ constructed = 0
    /\ thread_pc = [t \in Threads |-> "idle"]
    /\ thread_new = [t \in Threads |-> 0]
    /\ received = [t \in Threads |-> <<>>]

\* no upload was sent for a field
NoUpload == [kind |-> "none", content_type |-> "none", filename |-> "none"]

\* no chat request has arrived; no temporary file exists
InitChat ==
    /\ chat_pc = "idle"
    /\ chat_args = [message |-> "None", input_type |-> "text",
                    conversation_history |-> "None",
                    audio |-> NoUpload, image |-> NoUpload]
    /\ audio_path = "None"
    /\ image_path = "None"
    /\ temp_files = {}
    /\ chat_outcome = [kind |-> "pending", status_code |-> 0, detail |-> ""]

\* _parse_llm_response has not been called
IdleParser ==
    /\ response_text = <<>>
    /\ parsed = [outcome |-> "pending", value |-> <<>>]

IdleRest == InitMeaning /\ InitChat /\ IdleParser

IdleAux == IdleScheduler /\ IdleRest

Init ==
    /\ InitController
    /\ IdleService
    /\ IdleRoute
    /\ IdleEngine
    /\ IdleAux

\* get_chandas_controller(openai_client): a missing client is replaced by a
\* default AsyncOpenAI() client
get_chandas_controller ==
    /\ pc = "factory"
    /\ \E arg \in {None, "caller's client"} :
        /\ client_arg' = arg
        /\ openai_client' = IF arg = None THEN "AsyncOpenAI()" ELSE arg
    /\ pc' = "ready"
    /\ UNCHANGED <<text, known_meter, identified_by, messages, content, result,
                   outcome, llm_requests, llm_replies>>

\* identify_chandas(text) up to its first await: validation, known-verse
\* lookup, prompt construction, and the first completion request
IdentifyChandas(t) ==
    /\ text' = t
    /\ IF InvalidInput(t)
       THEN /\ outcome' = HTTPException(422, "Input text must be a non-empty string.")
            /\ pc' = "done"
            /\ UNCHANGED <<known_meter, identified_by, messages, llm_requests>>
       ELSE LET known == KnownVerseLookup(t.value)
                msgs == InitialMessages(t, known.known_meter)
            IN  /\ known_meter' = known.known_meter
                /\ identified_by' = known.identified_by
                /\ messages' = msgs
                /\ llm_requests' = Append(llm_requests, msgs)
                /\ pc' = "await1"
                /\ UNCHANGED outcome
    /\ UNCHANGED <<client_arg, openai_client, content, result, llm_replies>>

\* a caller invokes controller.identify_chandas with any argument
identify_chandas ==
    /\ pc = "ready"
    /\ \E t \in TextArgs : IdentifyChandas(t)

\* the return at the end of identify_chandas
Finish(km, idby, res) ==
    LET final == Reconcile(km, idby, res)
    IN  /\ identified_by' = final.identified_by
        /\ result' = final.result
        /\ outcome' = Returned
        /\ pc' = "done"

\* variant of Fail: the exception leaves identify_chandas as it was raised
Fail_Unconverted(status, detail) ==
    /\ outcome' = [kind |-> "Exception", status_code |-> 0, detail |-> detail]
    /\ pc' = "done"

\* an exception leaves identify_chandas as an HTTPException
Fail(status, detail) ==
    /\ outcome' = HTTPException(status, detail)
    /\ pc' = "done"

\* the first completion arrives: decode, validate, self-verify; then either
\* re-prompt (second completion request) or reconcile and return
first_completion ==
    /\ pc = "await1"
    /\ \E reply \in Replies :
        /\ llm_replies' = Append(llm_replies, reply)
        /\ IF reply.kind = "raise"
           THEN /\ Fail(500, "Internal error")
                /\ UNCHANGED <<content, result, identified_by, messages, llm_requests>>
           ELSE LET decoded == JsonLoads(reply)
                IN  /\ content' = reply
                    /\ IF ~decoded.ok
                       THEN /\ Fail(500, "Failed to parse LLM response as JSON")
                            /\ UNCHANGED <<result, identified_by, messages, llm_requests>>
                       ELSE IF NotIterable(decoded)
                       THEN /\ Fail(500, "Internal error")
                            /\ result' = decoded.value
                            /\ UNCHANGED <<identified_by, messages, llm_requests>>
                       ELSE IF Missing(decoded) # {}
                       THEN /\ Fail(500, "LLM response missing required fields")
                            /\ result' = decoded.value
                            /\ UNCHANGED <<identified_by, messages, llm_requests>>
                       ELSE IF ~decoded.is_dict
                       THEN \* result.get raises AttributeError
                            /\ Fail(500, "Internal error")
                            /\ result' = decoded.value
                            /\ UNCHANGED <<identified_by, messages, llm_requests>>
                       ELSE IF NeedsReverify(decoded.value)
                       THEN LET msgs == RepromptMessages(messages, reply, decoded.value)
                            IN  /\ messages' = msgs
                                /\ llm_requests' = Append(llm_requests, msgs)
                                /\ result' = decoded.value
                                /\ pc' = "await2"
                                /\ UNCHANGED <<identified_by, outcome>>
                       ELSE /\ Finish(known_meter, identified_by, decoded.value)
                            /\ UNCHANGED <<messages, llm_requests>>
    /\ UNCHANGED <<client_arg, openai_client, text, known_meter>>

\* variant of second_completion: the re-prompted answer is verified again and
\* a further re-prompt is sent while it is inconsistent
second_completion_retrying ==
    /\ pc = "await2"
    /\ \E reply \in Replies :
        /\ llm_replies' = Append(llm_replies, reply)
        /\ IF reply.kind = "raise"
           THEN /\ Fail(500, "Internal error")
                /\ UNCHANGED <<content, result, identified_by, messages, llm_requests>>
           ELSE LET decoded == JsonLoads(reply)
                IN  /\ content' = reply
                    /\ IF ~decoded.ok
                       THEN /\ Fail(500, "Internal error")
                            /\ UNCHANGED <<result, identified_by, messages, llm_requests>>
                       ELSE IF ~decoded.is_dict
                       THEN /\ Fail(500, "Internal error")
                            /\ result' = decoded.value
                            /\ identified_by' = "LLM_reverified"
                            /\ UNCHANGED <<messages, llm_requests>>
                       ELSE IF NeedsReverify(decoded.value)
                       THEN LET msgs == RepromptMessages(messages, reply, decoded.value)
                            IN  /\ messages' = msgs
                                /\ llm_requests' = Append(llm_requests, msgs)
                                /\ result' = decoded.value
                                /\ identified_by' = "LLM_reverified"
                                /\ UNCHANGED <<pc, outcome>>
                       ELSE /\ Finish(known_meter, "LLM_reverified", decoded.value)
                            /\ UNCHANGED <<messages, llm_requests>>
    /\ UNCHANGED <<client_arg, openai_client, text, known_meter>>

\* variant of second_completion: the re-prompted answer must carry the
\* required fields, like the first one
second_completion_validating ==
    /\ pc = "await2"
    /\ \E reply \in Replies :
        /\ llm_replies' = Append(llm_replies, reply)
        /\ IF reply.kind = "raise"
           THEN /\ Fail(500, "Internal error")
                /\ UNCHANGED <<content, result, identified_by>>
           ELSE LET decoded == JsonLoads(reply)
                IN  /\ content' = reply
                    /\ IF ~decoded.ok
                       THEN /\ Fail(500, "Internal error")
                            /\ UNCHANGED <<result, identified_by>>
                       ELSE IF ~decoded.is_dict \/ Missing(decoded) # {}
                       THEN /\ Fail(500, "LLM response missing required fields")
                            /\ result' = decoded.value
                            /\ identified_by' = "LLM_reverified"
                       ELSE Finish(known_meter, "LLM_reverified", decoded.value)
    /\ UNCHANGED <<client_arg, openai_client, text, known_meter, messages, llm_requests>>

\* the second completion arrives: decode without validation, mark the
\* answer LLM_reverified, reconcile and return
second_completion ==
    /\ pc = "await2"
    /\ \E reply \in Replies :
        /\ llm_replies' = Append(llm_replies, reply)
        /\ IF reply.kind = "raise"
           THEN /\ Fail(500, "Internal error")
                /\ UNCHANGED <<content, result, identified_by>>
           ELSE LET decoded == JsonLoads(reply)
                IN  /\ content' = reply
                    /\ IF ~decoded.ok
                       THEN /\ Fail(500, "Internal error")
                            /\ UNCHANGED <<result, identified_by>>
                       ELSE IF ~decoded.is_dict
                       THEN /\ Fail(500, "Internal error")
                            /\ result' = decoded.value
                            /\ identified_by' = "LLM_reverified"
                       ELSE Finish(known_meter, "LLM_reverified", decoded.value)
    /\ UNCHANGED <<client_arg, openai_client, text, known_meter, messages, llm_requests>>

Next ==
    \/ get_chandas_controller /\ UNCHANGED <<service_vars, route_vars, engine_vars, aux_vars>>
    \/ identify_chandas /\ UNCHANGED <<service_vars, route_vars, engine_vars, aux_vars>>
    \/ first_completion /\ UNCHANGED <<service_vars, route_vars, engine_vars, aux_vars>>
    \/ second_completion /\ UNCHANGED <<service_vars, route_vars, engine_vars, aux_vars>>

Spec == Init /\ [][Next]_vars

----------------------------------------------------------------------------
(* Two identify_chandas calls on one controller, interleaved at the awaits *)

\* the locals of the running call
CurrentFrame ==
    [pc |-> pc, text |-> text, known_meter |-> known_meter,
     identified_by |-> identified_by, messages |-> messages, content |-> content,
     result |-> result, outcome |-> outcome, llm_requests |-> llm_requests,
     llm_replies |-> llm_replies]

\* a switch that leaves known_meter where it is, as if it were kept on the
\* controller instead of in the call
switch_coroutine_sharing_known_meter ==
    /\ pc # "factory"
    /\ suspended' = CurrentFrame
    /\ pc' = suspended.pc
    /\ text' = suspended.text
    /\ identified_by' = suspended.identified_by
    /\ messages' = suspended.messages
    /\ content' = suspended.content
    /\ result' = suspended.result
    /\ outcome' = suspended.outcome
    /\ llm_requests' = suspended.llm_requests
    /\ llm_replies' = suspended.llm_replies
    /\ UNCHANGED <<client_arg, openai_client, known_meter>>

\* the event loop runs the other call: a call is only left before it starts,
\* at one of its two awaits, or after it ended; the locals go with the call,
\* the controller's attributes stay
switch_coroutine ==
    /\ pc # "factory"
    /\ suspended' = CurrentFrame
    /\ pc' = suspended.pc
    /\ text' = suspended.text
    /\ known_meter' = suspended.known_meter
    /\ identified_by' = suspended.identified_by
    /\ messages' = suspended.messages
    /\ content' = suspended.content
    /\ result' = suspended.result
    /\ outcome' = suspended.outcome
    /\ llm_requests' = suspended.llm_requests
    /\ llm_replies' = suspended.llm_replies
    /\ UNCHANGED <<client_arg, openai_client>>

\* the texts of the interleaved calls: blank, without a known verse, with
\* the opening of Gita 1.1, with the opening of Gita 4.7
ConcurrentTexts ==
    {[type |-> "str", value |-> v] :
        v \in {<<SP>>, <<"kurukshetre">>,
               <<"dharmakshetre", SP, "kurukshetre">>,
               <<"yada yada hi dharmasya">>}}

\* the replies of the interleaved calls
ConcurrentReplies ==
    {[kind |-> "raise", value |-> NoResult]}
        \cup {[kind |-> "object", value |-> o] :
                o \in {Answer("Anushtubh", <<8, 8, 8, 8>>, 80),
                       Answer("Anushtubh", <<12, 12, 12, 12>>, 80),
                       Answer("Trishtubh", <<11, 11, 11, 11>>, 95)}}

ConcurrentNext ==
    \/ get_chandas_controller
         /\ UNCHANGED <<service_vars, route_vars, engine_vars, aux_vars>>
    \/ identify_chandas /\ text' \in ConcurrentTexts
         /\ UNCHANGED <<service_vars, route_vars, engine_vars, aux_vars>>
    \/ first_completion /\ llm_replies'[Len(llm_replies')] \in ConcurrentReplies
         /\ UNCHANGED <<service_vars, route_vars, engine_vars, aux_vars>>
    \/ second_completion /\ llm_replies'[Len(llm_replies')] \in ConcurrentReplies
         /\ UNCHANGED <<service_vars, route_vars, engine_vars, aux_vars>>
    \/ switch_coroutine
         /\ UNCHANGED <<service_vars, route_vars, engine_vars, rest_vars>>

ConcurrentSpec == Init /\ [][ConcurrentNext]_vars

----------------------------------------------------------------------------
(* get_meaning_controller, src/controllers/meaning_controller.py; FastAPI *)
(* runs this plain function in a worker thread for every request          *)

\* a thread enters get_meaning_controller
call_get_meaning_controller(t) ==
    /\ thread_pc[t] = "idle"
    /\ Len(received[t]) < MaxCalls
    /\ thread_pc' = [thread_pc EXCEPT ![t] = "test"]
    /\ UNCHANGED <<_meaning_controller, constructed, thread_new, received>>

\* if _meaning_controller is None
test_global(t) ==
    /\ thread_pc[t] = "test"
    /\ thread_pc' = [thread_pc EXCEPT ![t] =
                        IF _meaning_controller = 0 THEN "construct" ELSE "return"]
    /\ UNCHANGED <<_meaning_controller, constructed, thread_new, received>>

\* MeaningController(): the constructor reads files and builds clients
construct_controller(t) ==
    /\ thread_pc[t] = "construct"
    /\ constructed' = constructed + 1
    /\ thread_new' = [thread_new EXCEPT ![t] = constructed + 1]
    /\ thread_pc' = [thread_pc EXCEPT ![t] = "assign"]
    /\ UNCHANGED <<_meaning_controller, received>>

\* _meaning_controller = <the new object>
assign_global(t) ==
    /\ thread_pc[t] = "assign"
    /\ _meaning_controller' = thread_new[t]
    /\ thread_new' = [thread_new EXCEPT ![t] = 0]
    /\ thread_pc' = [thread_pc EXCEPT ![t] = "return"]
    /\ UNCHANGED <<constructed, received>>

\* return _meaning_controller
return_global(t) ==
    /\ thread_pc[t] = "return"
    /\ received' = [received EXCEPT ![t] = Append(@, _meaning_controller)]
    /\ thread_pc' = [thread_pc EXCEPT ![t] = "idle"]
    /\ UNCHANGED <<_meaning_controller, constructed, thread_new>>

get_meaning_controller ==
    \E t \in Threads :
        \/ call_get_meaning_controller(t)
        \/ test_global(t)
        \/ construct_controller(t)
        \/ assign_global(t)
        \/ return_global(t)

MeaningNext ==
    get_meaning_controller
        /\ UNCHANGED <<controller_vars, service_vars, route_vars, engine_vars,
                       scheduler_vars, chat_vars, parser_vars>>

MeaningSpec == Init /\ [][MeaningNext]_vars

----------------------------------------------------------------------------
(* The chat route, src/routes/chatbot_routes.py *)

\* what a client can send in a file field: nothing, a string, or an upload
\* with a content type and a file name (which a client may leave out)
ContentTypes == {"audio/wav", "image/png", "text/plain"}

Uploads ==
    {NoUpload, [kind |-> "str", content_type |-> "none", filename |-> "none"]}
        \cup {[kind |-> "file", content_type |-> c, filename |-> f] :
                 c \in ContentTypes, f \in {"upload.bin", "None"}}

ChatArgs ==
    [message : {"None", " ", "kim chandah"},
     input_type : {"text", "voice", "image", "video"},
     conversation_history : {"None", "[]", "not json"},
     audio : Uploads,
     image : Uploads]

allowed_audio ==
    {"audio/wav", "audio/mpeg", "audio/mp3", "audio/x-m4a", "audio/flac", "audio/ogg"}

allowed_images == {"image/jpeg", "image/png", "image/jpg"}

\* audio if isinstance(audio, UploadFile) else None
AsUploadFile(u) == IF u.kind = "file" THEN u ELSE NoUpload

\* the route ends with an HTTPException
ChatFail(status) ==
    /\ chat_outcome' = [kind |-> "HTTPException", status_code |-> status, detail |-> ""]
    /\ chat_pc' = "done"

\* validation of one upload, then tempfile.NamedTemporaryFile(delete=False, ...)
\* up to the await of the upload's read
SaveUpload(file, allowed, name) ==
    IF file.kind = "none" THEN ChatFail(400) /\ UNCHANGED temp_files
    ELSE IF file.content_type \notin allowed THEN ChatFail(400) /\ UNCHANGED temp_files
    ELSE IF file.filename = "None"
    THEN \* os.path.splitext(None) raises before the file is created
         ChatFail(500) /\ UNCHANGED temp_files
    ELSE /\ temp_files' = temp_files \cup {name}
         /\ chat_pc' = "read"
         /\ UNCHANGED chat_outcome

\* chat(...) from its entry to its first await, or to its end
Chat(a) ==
    /\ chat_args' = a
    /\ IF a.input_type \notin {"text", "voice", "image"}
       THEN ChatFail(400) /\ UNCHANGED temp_files
       ELSE IF a.input_type = "text"
       THEN IF a.message \in {"None", " "}
            THEN ChatFail(400) /\ UNCHANGED temp_files
            ELSE chat_pc' = "process" /\ UNCHANGED <<temp_files, chat_outcome>>
       ELSE IF a.input_type = "voice"
       THEN SaveUpload(AsUploadFile(a.audio), allowed_audio, "audio.tmp")
       ELSE SaveUpload(AsUploadFile(a.image), allowed_images, "image.tmp")
    /\ UNCHANGED <<audio_path, image_path>>

chat ==
    /\ chat_pc = "idle"
    /\ \E a \in ChatArgs : Chat(a)

\* the status an exception leaves the route with: an HTTPException (here a
\* 413) passes through, a ValueError becomes 400, anything else 500
StatusOf(exception) ==
    IF exception = "HTTPException" THEN 413
    ELSE IF exception = "ValueError" THEN 400
    ELSE 500

\* content = await file.read(); tmp.write(content); path = tmp.name, inside
\* the with block: the read or the write can raise, and the with block only
\* closes the file (delete=False)
upload_read ==
    /\ chat_pc = "read"
    /\ \E r \in {"saved", "HTTPException", "ValueError", "Exception"} :
         IF r = "saved"
         THEN /\ audio_path' = IF chat_args.input_type = "voice" THEN "audio.tmp" ELSE audio_path
              /\ image_path' = IF chat_args.input_type = "image" THEN "image.tmp" ELSE image_path
              /\ chat_pc' = "process"
              /\ UNCHANGED <<temp_files, chat_outcome>>
         ELSE /\ ChatFail(StatusOf(r))
              /\ UNCHANGED <<temp_files, audio_path, image_path>>
    /\ UNCHANGED chat_args

\* the finally block: each path that is set and exists is unlinked; a failing
\* unlink is logged and the file stays
Cleanup(unlinks) ==
    temp_files \ {f \in {audio_path, image_path} : unlinks}

\* await controller.process_chat(...) ends, the finally block runs, and the
\* route returns or raises
process_chat ==
    /\ chat_pc = "process"
    /\ \E r \in {"result", "ValueError", "HTTPException", "Exception"},
          unlinks \in BOOLEAN :
         /\ temp_files' = Cleanup(unlinks)
         /\ chat_outcome' =
              IF r = "result" THEN [kind |-> "return", status_code |-> 0, detail |-> ""]
              ELSE [kind |-> "HTTPException",
                    status_code |-> IF r = "ValueError" THEN 400
                                    ELSE IF r = "HTTPException" THEN 503 ELSE 500,
                    detail |-> ""]
         /\ chat_pc' = "done"
    /\ UNCHANGED <<chat_args, audio_path, image_path>>

ChatOthers ==
    <<controller_vars, service_vars, route_vars, engine_vars, scheduler_vars,
      meaning_vars, parser_vars>>

ChatNext ==
    \/ chat /\ UNCHANGED ChatOthers
    \/ upload_read /\ UNCHANGED ChatOthers
    \/ process_chat /\ UNCHANGED ChatOthers

ChatSpec == Init /\ [][ChatNext]_vars

----------------------------------------------------------------------------
(* MeaningController._parse_llm_response, src/controllers/meaning_controller.py *)

\* the markers of a fenced code block: three backquotes followed by json, and
\* three backquotes (written <fence> here)
FenceJson == "<fence>json"
Fence == "<fence>"

\* JSON documents a response can carry: an object with one of the four keys
\* and a key of its own, the empty object, an array, a number
ObjectText == "{\"translation\": \"dharma\", \"meter\": \"Anushtubh\"}"
EmptyObjectText == "{}"
ArrayText == "[]"
NumberText == "1"

\* chunks a response text is built from
ResponseTokens ==
    {FenceJson, Fence, SP, "Here is the translation:",
     ObjectText, EmptyObjectText, ArrayText, NumberText}

\* the chunks before the first occurrence of the marker (all, without one)
UpToFirst(s, marker) ==
    IF \E i \in 1..Len(s) : s[i] = marker
    THEN SubSeq(s, 1, (CHOOSE i \in 1..Len(s) :
                          s[i] = marker /\ \A j \in 1..(i - 1) : s[j] # marker) - 1)
    ELSE s

\* the chunks after the first occurrence of the marker
AfterFirst(s, marker) == SubSeq(s, Len(UpToFirst(s, marker)) + 2, Len(s))

\* s.split(marker)[1], for an s that contains the marker
SplitSecond(s, marker) == UpToFirst(AfterFirst(s, marker), marker)

\* the text handed to json.loads: the body of the first json fence, else of
\* the first fence, else the whole text; stripped
ExtractJson(s) ==
    IF \E i \in 1..Len(s) : s[i] = FenceJson
    THEN Strip(UpToFirst(SplitSecond(s, FenceJson), Fence))
    ELSE IF \E i \in 1..Len(s) : s[i] = Fence
    THEN Strip(UpToFirst(SplitSecond(s, Fence), Fence))
    ELSE Strip(s)

\* json.loads of a text: one document decodes to its value, digits in a row
\* to one number, anything else is rejected
LoadsChunks(s) ==
    IF s = <<ObjectText>>
    THEN [ok |-> TRUE, is_dict |-> TRUE,
          value |-> [translation |-> "dharma", meter |-> "Anushtubh"]]
    ELSE IF s = <<EmptyObjectText>>
    THEN [ok |-> TRUE, is_dict |-> TRUE, value |-> <<>>]
    ELSE IF s = <<ArrayText>>
    THEN [ok |-> TRUE, is_dict |-> FALSE, value |-> <<>>]
    ELSE IF s # <<>> /\ \A i \in 1..Len(s) : s[i] = NumberText
    THEN [ok |-> TRUE, is_dict |-> FALSE, value |-> <<>>]
    ELSE [ok |-> FALSE, is_dict |-> FALSE, value |-> <<>>]

\* data.setdefault(k, v)
SetDefault(d, k, v) == IF k \in DOMAIN d THEN d ELSE Put(d, k, v)

\* the four setdefault calls
WithDefaults(d) ==
    SetDefault(SetDefault(SetDefault(SetDefault(d, "translation", ""),
                                     "word_meanings", <<>>),
                          "context", ""),
               "notes", "")

\* the dictionary returned from the except branch
FallbackMeaning ==
    [translation |-> "Unable to translate", word_meanings |-> <<>>,
     context |-> "", notes |-> "Translation failed"]

\* variant of ParseLLMResponse: JSON that is not an object is not caught
ParseLLMResponse_NonObjectEscapes(s) ==
    LET decoded == LoadsChunks(ExtractJson(s))
    IN  IF decoded.ok /\ decoded.is_dict
        THEN [outcome |-> "return", value |-> WithDefaults(decoded.value)]
        ELSE IF decoded.ok
        THEN [outcome |-> "raise", value |-> <<>>]
        ELSE [outcome |-> "return", value |-> FallbackMeaning]

\* _parse_llm_response(response_text): a decoding error, and the
\* AttributeError of setdefault on a value that is not a dict, both end in
\* the except branch
ParseLLMResponse(s) ==
    LET decoded == LoadsChunks(ExtractJson(s))
    IN  IF decoded.ok /\ decoded.is_dict
        THEN [outcome |-> "return", value |-> WithDefaults(decoded.value)]
        ELSE [outcome |-> "return", value |-> FallbackMeaning]

InitParser ==
    /\ \E s \in SeqsUpTo(ResponseTokens, MaxResponseChunks) : response_text = s
    /\ parsed = [outcome |-> "pending", value |-> <<>>]

parse_llm_response ==
    /\ parsed.outcome = "pending"
    /\ parsed' = ParseLLMResponse(response_text)
    /\ UNCHANGED response_text

ParserNext ==
    parse_llm_response
        /\ UNCHANGED <<controller_vars, service_vars, route_vars, engine_vars,
                       scheduler_vars, meaning_vars, chat_vars>>

ParserInit ==
    /\ InitController /\ IdleService /\ IdleRoute /\ IdleEngine
    /\ IdleScheduler /\ InitMeaning /\ InitChat /\ InitParser

ParserSpec == ParserInit /\ [][ParserNext]_vars

----------------------------------------------------------------------------
(* ChandasService.identify_metre, src/services/chandas_service.py *)

\* the keys ChandasService reads from the library's answer
LibraryKeys ==
    {"name", "pattern", "laghu_guru", "confidence", "syllable_count", "gana"}

\* an answer of stuti.chandas.identify_metre with every key
LibraryAnswer(name, conf) ==
    [k \in LibraryKeys |->
        CASE k = "name" -> name
          [] k = "confidence" -> conf
          [] k = "syllable_count" -> <<8, 8, 8, 8>>
          [] OTHER -> k]

\* the dicts the library can return: empty, complete, or lacking one key
LibraryDicts ==
    LET full == {LibraryAnswer(n, f) : n \in {"Anushtubh", "Unknown"}, f \in {0, 85}}
    IN  {<<>>} \cup full \cup {Drop(d, k) : d \in full, k \in {"name", "confidence"}}

\* what the library does for one call: the import fails; identify_metre
\* raises an ImportError of its own or another exception; or it returns None,
\* a dict, or a value that is not a dict, true ("str": a non-empty string) or
\* false ("falsy": '', 0, [])
LibraryOutcomes ==
    {[kind |-> k, value |-> <<>>] :
        k \in {"ImportError", "CallImportError", "Exception", "None", "str", "falsy"}}
        \cup {[kind |-> "dict", value |-> d] : d \in LibraryDicts}

\* Python truth value of what the library returned
Truthy(lib) ==
    \/ lib.kind = "str"
    \/ lib.kind = "dict" /\ lib.value # <<>>

\* the dict built from a library answer
DetectedInfo(res) ==
    [k \in {"metre", "scheme", "laghu_guru_pattern", "confidence",
            "syllable_count", "gana_pattern", "detected"} |->
        CASE k = "metre" -> Get(res, "name", "Unknown")
          [] k = "scheme" -> Get(res, "pattern", "")
          [] k = "laghu_guru_pattern" -> Get(res, "laghu_guru", "")
          [] k = "confidence" -> Get(res, "confidence", 0)
          [] k = "syllable_count" -> Get(res, "syllable_count", <<>>)
          [] k = "gana_pattern" -> Get(res, "gana", "")
          [] OTHER -> TRUE]

\* the dict returned when the library gives no result
UnknownInfo ==
    [k \in {"metre", "scheme", "laghu_guru_pattern", "confidence",
            "syllable_count", "gana_pattern", "detected"} |->
        CASE k = "metre" -> "Unknown"
          [] k = "confidence" -> 0
          [] k = "syllable_count" -> <<>>
          [] k = "detected" -> FALSE
          [] OTHER -> ""]

\* the dict returned from the two except clauses
ErrorInfo(error) ==
    Put(Put(UnknownInfo, "metre", "Error"), "error", error)

\* the same service without the test of the library's result
IdentifyMetre_NoResultTest(v, lib) ==
    [kind |-> "return",
     value |->
        IF lib.kind = "ImportError"
        THEN ErrorInfo("stuti-chandas library not available")
        ELSE IF v.type # "str" THEN ErrorInfo("object has no attribute 'strip'")
        ELSE IF lib.kind = "CallImportError"
        THEN ErrorInfo("stuti-chandas library not available")
        ELSE IF lib.kind = "Exception" THEN ErrorInfo("str(e)")
        ELSE IF lib.kind # "dict" THEN ErrorInfo("object has no attribute 'get'")
        ELSE DetectedInfo(lib.value)]

\* ChandasService.identify_metre(verse) when the library behaves as lib
IdentifyMetre(v, lib) ==
    [kind |-> "return",
     value |->
        IF lib.kind = "ImportError"
        THEN ErrorInfo("stuti-chandas library not available")
        ELSE IF v.type # "str" THEN ErrorInfo("object has no attribute 'strip'")
        ELSE IF lib.kind = "CallImportError"
        THEN ErrorInfo("stuti-chandas library not available")
        ELSE IF lib.kind = "Exception" THEN ErrorInfo("str(e)")
        ELSE IF ~Truthy(lib) THEN UnknownInfo
        ELSE IF lib.kind # "dict" THEN ErrorInfo("object has no attribute 'get'")
        ELSE DetectedInfo(lib.value)]

identify_metre ==
    /\ metre_info.kind = "pending"
    /\ \E v \in TextArgs, lib \in LibraryOutcomes :
        /\ verse' = v
        /\ library' = lib
        /\ metre_info' = IdentifyMetre(v, lib)

ServiceNext ==
    identify_metre
        /\ UNCHANGED <<controller_vars, route_vars, engine_vars, aux_vars>>

ServiceSpec == Init /\ [][ServiceNext]_vars

----------------------------------------------------------------------------
(* POST /chandas/identify, src/routes/chandas_routes.py *)

\* the shloka of a request body that passed ChandasIdentifyRequest: a str
Shlokas == SeqsUpTo(Vocabulary, MaxTextLen)

\* the argument the route gives to controller.identify_chandas: the request
\* object itself
ControllerArgument(req) ==
    [type |-> "ChandasIdentifyRequest", shloka |-> req.shloka]

\* str(e) of the controller's HTTPException: "<status>: <detail>" where the
\* installed starlette defines __str__, the empty string where it does not
StrOfException(out, has_str) ==
    IF has_str THEN ToString(out.status_code) \o ": " \o out.detail ELSE ""

\* the end of the route handler: the controller's result is returned, and
\* any exception, the controller's HTTPException included, becomes a 500
RouteResponse(out, has_str) ==
    IF out.kind = "return"
    THEN Returned
    ELSE HTTPException(500, "Failed to identify chandas: " \o StrOfException(out, has_str))

\* the route handler up to the first await inside the controller; a call
\* the controller ends before that await is answered in the same step
route_identify_chandas ==
    /\ pc = "ready"
    /\ response = Pending
    /\ \E s \in Shlokas :
        /\ request' = [shloka |-> s]
        /\ IdentifyChandas(ControllerArgument([shloka |-> s]))
    /\ \E has_str \in BOOLEAN :
        response' = IF pc' = "done" THEN RouteResponse(outcome', has_str) ELSE Pending

RouteNext ==
    \/ get_chandas_controller /\ UNCHANGED <<service_vars, route_vars, engine_vars, aux_vars>>
    \/ route_identify_chandas /\ UNCHANGED <<service_vars, engine_vars, aux_vars>>

RouteSpec == Init /\ [][RouteNext]_vars

----------------------------------------------------------------------------
(* Meter Catalog & Matcher, specification section 4.5 *)

\* the weight alphabet: Laghu and Guru
Weights == {"L", "G"}

\* canonicalPattern of a meter that only constrains counts
NoPattern == <<>>

MeterDefinition(name, counts, pattern) ==
    [name |-> name, syllablesPerPada |-> counts, canonicalPattern |-> pattern]

\* meters a catalog is built from, scaled down to padas of one and two
\* syllables: A and B share their counts and differ in two positions, C
\* constrains counts only, D has padas of different lengths, E shares the
\* counts of A and ends its padas in Laghu
MeterPool ==
    { MeterDefinition("A", <<2, 2>>, <<"L", "G", "L", "G">>),
      MeterDefinition("B", <<2, 2>>, <<"G", "G", "G", "G">>),
      MeterDefinition("C", <<2, 2>>, NoPattern),
      MeterDefinition("D", <<1, 2>>, <<"G", "L", "G">>),
      MeterDefinition("E", <<2, 2>>, <<"L", "L", "L", "L">>) }

\* a catalog: meters in insertion order, none twice
Catalogs ==
    {c \in SeqsUpTo(MeterPool, MaxCatalog) :
        \A i, j \in 1..Len(c) : i # j => c[i] # c[j]}

\* the weight patterns of the padas of a verse
VerseWeights ==
    SeqsUpTo(SeqsUpTo(Weights, MaxPadaLen) \ {<<>>}, MaxPadas) \ {<<>>}

\* the final syllable of a pada counts as Guru when matching
EndOfPadaOverride(pada) ==
    [i \in 1..Len(pada) |-> IF i = Len(pada) THEN "G" ELSE pada[i]]

RECURSIVE Concat(_)
Concat(padas) ==
    IF padas = <<>> THEN <<>> ELSE Head(padas) \o Concat(Tail(padas))

\* the verse's concatenated WeightPattern with the override applied
MatchingPattern(v) ==
    Concat([i \in 1..Len(v) |-> EndOfPadaOverride(v[i])])

SyllableCountPerPada(v) == [i \in 1..Len(v) |-> Len(v[i])]

\* stage 1: the catalog entries whose canonicalPattern is the verse's pattern
ExactMatches(cat, p) ==
    {i \in 1..Len(cat) : cat[i].canonicalPattern = p}

\* a shortlist by total syllable count instead of per-pada counts
RECURSIVE Sum(_)
Sum(counts) == IF counts = <<>> THEN 0 ELSE Head(counts) + Sum(Tail(counts))

Candidates_ByTotal(cat, counts) ==
    {i \in 1..Len(cat) : Sum(cat[i].syllablesPerPada) = Sum(counts)}

\* stage 2: the catalog entries whose syllablesPerPada is the verse's
Candidates(cat, counts) ==
    {i \in 1..Len(cat) : cat[i].syllablesPerPada = counts}

\* the number of syllable positions of p that agree with a meter's
\* canonicalPattern; none when the meter has no pattern
Score(def, p) ==
    Cardinality({k \in 1..Len(p) :
        k <= Len(def.canonicalPattern) /\ def.canonicalPattern[k] = p[k]})

\* the highest-scoring candidate, the latest of them in the catalog
Best_LastInCatalog(cat, cands, p) ==
    SetMax({i \in cands : \A j \in cands : Score(cat[j], p) <= Score(cat[i], p)})

\* the highest-scoring candidate, the earliest of them in the catalog
Best(cat, cands, p) ==
    SetMin({i \in cands : \A j \in cands : Score(cat[j], p) <= Score(cat[i], p)})

\* matching positions / total positions, floored at 0.5
ScoreConfidence(score, total) ==
    IF 2 * score >= total THEN Ratio(score, total) ELSE Ratio(1, 2)

\* the count-based stage
CountStage(cat, v) ==
    LET p == MatchingPattern(v)
        cands == Candidates(cat, SyllableCountPerPada(v))
    IN  IF cands = {}
        THEN [stage |-> "none", meterName |-> "Unknown", confidence |-> Ratio(0, 1)]
        ELSE IF Cardinality(cands) = 1
        THEN [stage |-> "count", meterName |-> cat[SetMin(cands)].name,
              confidence |-> Ratio(85, 100)]
        ELSE LET best == Best(cat, cands, p)
             IN  [stage |-> "score", meterName |-> cat[best].name,
                  confidence |-> ScoreConfidence(Score(cat[best], p), Len(p))]

\* a matcher that shortlists by count before looking for an exact match
Matcher_CountFirst(cat, v) ==
    IF Candidates(cat, SyllableCountPerPada(v)) # {}
    THEN CountStage(cat, v)
    ELSE LET exact == ExactMatches(cat, MatchingPattern(v))
         IN  IF exact # {}
             THEN [stage |-> "exact", meterName |-> cat[SetMin(exact)].name,
                   confidence |-> Ratio(1, 1)]
             ELSE CountStage(cat, v)

\* the two-stage matcher
Matcher(cat, v) ==
    LET exact == ExactMatches(cat, MatchingPattern(v))
    IN  IF exact # {}
        THEN [stage |-> "exact", meterName |-> cat[SetMin(exact)].name,
              confidence |-> Ratio(1, 1)]
        ELSE CountStage(cat, v)

InitMatcher ==
    /\ catalog \in Catalogs
    /\ verse_weights \in VerseWeights
    /\ match = [stage |-> "pending", meterName |-> "", confidence |-> Ratio(0, 1)]

run_matcher ==
    /\ match.stage = "pending"
    /\ match' = Matcher(catalog, verse_weights)
    /\ UNCHANGED <<catalog, verse_weights>>

MatcherNext ==
    run_matcher
        /\ UNCHANGED <<controller_vars, service_vars, route_vars, gana_vars,
                       segmenter_vars, aux_vars>>

MatcherInit ==
    /\ InitController /\ IdleService /\ IdleRoute
    /\ InitMatcher /\ IdleGana /\ IdleSegmenter
    /\ IdleAux

MatcherSpec == MatcherInit /\ [][MatcherNext]_vars

----------------------------------------------------------------------------
(* Gana Deriver, specification section 4.4 *)

\* the 8 canonical gana names
GanaNames == {"ya", "ma", "ta", "ra", "ja", "bha", "na", "sa"}

\* the 8 possible triplets of weights
Triplets == [1..3 -> Weights]

\* the fixed lookup table from triplet to gana name
GanaName(t) ==
    CASE t = <<"L", "G", "G">> -> "ya"
      [] t = <<"G", "G", "G">> -> "ma"
      [] t = <<"G", "G", "L">> -> "ta"
      [] t = <<"G", "L", "G">> -> "ra"
      [] t = <<"L", "G", "L">> -> "ja"
      [] t = <<"G", "L", "L">> -> "bha"
      [] t = <<"L", "L", "L">> -> "na"
      [] t = <<"L", "L", "G">> -> "sa"

\* a deriver that pads a trailing remainder with Laghu into one more gana
GanaDeriver_PadsRemainder(p) ==
    LET n == Len(p) \div 3
        padded == IF Len(p) % 3 = 0 THEN p
                  ELSE IF Len(p) % 3 = 1 THEN p \o <<"L", "L">>
                  ELSE p \o <<"L">>
    IN  [state |-> "done",
         ganaPattern |->
            [i \in 1..(Len(padded) \div 3) |->
                GanaName(SubSeq(padded, 3 * i - 2, 3 * i))],
         remainder |-> <<>>]

\* consecutive non-overlapping triplets of one pada's pattern, each mapped
\* to its gana name, and the unclassified trailing remainder
GanaDeriver(p) ==
    LET n == Len(p) \div 3
    IN  [state |-> "done",
         ganaPattern |-> [i \in 1..n |-> GanaName(SubSeq(p, 3 * i - 2, 3 * i))],
         remainder |-> SubSeq(p, 3 * n + 1, Len(p))]

InitGana ==
    /\ weight_pattern \in SeqsUpTo(Weights, MaxPatternLen)
    /\ gana = [state |-> "pending", ganaPattern |-> <<>>, remainder |-> <<>>]

derive_ganas ==
    /\ gana.state = "pending"
    /\ gana' = GanaDeriver(weight_pattern)
    /\ UNCHANGED weight_pattern

GanaNext ==
    derive_ganas
        /\ UNCHANGED <<controller_vars, service_vars, route_vars, matcher_vars,
                       segmenter_vars, aux_vars>>

GanaInit ==
    /\ InitController /\ IdleService /\ IdleRoute
    /\ IdleMatcher /\ InitGana /\ IdleSegmenter
    /\ IdleAux

GanaSpec == GanaInit /\ [][GanaNext]_vars

----------------------------------------------------------------------------
(* Syllable Segmenter and Weight Classifier, specification sections 4.2, 4.3 *)

\* the kinds of character of a pada: a consonant without its vowel, a short
\* vowel, a long vowel, anusvara or visarga, and an unrecognized character
Consonant == "C"
ShortVowel == "a"
LongVowel == "A"
Nasal == "M"
Unrecognized == "x"
Vowels == {ShortVowel, LongVowel}
Tokens == {Consonant, ShortVowel, LongVowel, Nasal, Unrecognized}

\* the k-th smallest element of a set of numbers
Nth(S, k) == CHOOSE i \in S : Cardinality({j \in S : j < i}) = k - 1

\* the padas of the characters s cut after the places in cuts
SplitPadas(s, cuts) ==
    [k \in 1..(Cardinality(cuts) + 1) |->
        SubSeq(s,
               IF k = 1 THEN 1 ELSE Nth(cuts, k - 1) + 1,
               IF k = Cardinality(cuts) + 1 THEN Len(s) ELSE Nth(cuts, k))]

\* unrecognized characters are skipped
Recognized(pada) == SelectSeq(pada, LAMBDA t : t # Unrecognized)

\* the places of the vowels of r, left to right
VowelPlaces(r) ==
    LET S == {i \in 1..Len(r) : r[i] \in Vowels}
    IN  [k \in 1..Cardinality(S) |-> Nth(S, k)]

\* where the syllable of the vowel at place i starts: the consonants joined
\* before a vowel belong to that vowel's syllable
Onset(r, i) ==
    SetMin({j \in 1..i : \A m \in j..(i - 1) : r[m] = Consonant})

\* where the k-th syllable ends: before the next syllable's onset, so that
\* anusvara and visarga stay with the preceding syllable
SyllableEnd(r, vs, k) ==
    IF k = Len(vs) THEN Len(r) ELSE Onset(r, vs[k + 1]) - 1

\* Guru for a long vowel, for anusvara or visarga, and for a vowel followed
\* in the pada by two or more consonants before the next vowel; else Laghu
WeightClassifier(r, vs, k) ==
    LET next == IF k = Len(vs) THEN Len(r) + 1 ELSE vs[k + 1]
        between == (vs[k] + 1)..(next - 1)
    IN  IF \/ r[vs[k]] = LongVowel
           \/ \E j \in (vs[k] + 1)..SyllableEnd(r, vs, k) : r[j] = Nasal
           \/ Cardinality({j \in between : r[j] = Consonant}) >= 2
        THEN "G"
        ELSE "L"

\* the Syllables of one pada, in reading order, positions from 1
Segmenter(pada) ==
    LET r == Recognized(pada)
        vs == VowelPlaces(r)
    IN  [k \in 1..Len(vs) |->
            [text |-> SubSeq(r, Onset(r, vs[k]), SyllableEnd(r, vs, k)),
             weight |-> WeightClassifier(r, vs, k),
             position |-> k]]

\* a count of the recognized characters of a pada instead of its syllables
PadaSyllableCount_CountsCharacters(pada) == Len(Recognized(pada))

\* the entry of syllableCountPerPada for one pada
PadaSyllableCount(pada) == Len(Segmenter(pada))

\* the breakdown, weight pattern and counts of a verse
Analyse(v) ==
    LET syllables == Concat([i \in 1..Len(v) |-> Segmenter(v[i])])
    IN  [state |-> "done",
         syllableBreakdown |-> syllables,
         weightPattern |-> [i \in 1..Len(syllables) |-> syllables[i].weight],
         syllableCountPerPada |-> [i \in 1..Len(v) |-> PadaSyllableCount(v[i])],
         skipped |-> \E i \in 1..Len(v) : Recognized(v[i]) # v[i]]

\* a normalized verse: at least one pada, no pada empty
InitSegmenter ==
    /\ \E s \in SeqsUpTo(Tokens, MaxVerseTokens) \ {<<>>} :
        \E cuts \in SUBSET (1..(Len(s) - 1)) :
            /\ Cardinality(cuts) < MaxPadas
            /\ verse_text = SplitPadas(s, cuts)
    /\ analysis = [state |-> "pending", syllableBreakdown |-> <<>>,
                   weightPattern |-> <<>>, syllableCountPerPada |-> <<>>,
                   skipped |-> FALSE]

segment_verse ==
    /\ analysis.state = "pending"
    /\ analysis' = Analyse(verse_text)
    /\ UNCHANGED verse_text

SegmenterNext ==
    segment_verse
        /\ UNCHANGED <<controller_vars, service_vars, route_vars, matcher_vars,
                       gana_vars, aux_vars>>

SegmenterInit ==
    /\ InitController /\ IdleService /\ IdleRoute
    /\ IdleMatcher /\ IdleGana /\ InitSegmenter
    /\ IdleAux

SegmenterSpec == SegmenterInit /\ [][SegmenterNext]_vars

----------------------------------------------------------------------------
(* Vocabulary of the properties *)

\* the opening of Gita 1.1, "dharmakshetre kurukshetre"
DharmakshetreOpening == <<"dharmakshetre", SP, "kurukshetre">>

\* position of an opening in the table
EntryIndex(opening) ==
    CHOOSE i \in 1..Len(KNOWN_METERS) : KNOWN_METERS[i].verse_start = opening

\* no table entry before the given one, and of another meter, is contained in s
NoEarlierOtherMeter(opening, s) ==
    \A i \in 1..(EntryIndex(opening) - 1) :
        KNOWN_METERS[i].meter # KNOWN_METERS[EntryIndex(opening)].meter
            => ~Contains(KNOWN_METERS[i].verse_start, s)

\* no table entry is contained in s
NoKnownVerse(s) ==
    \A i \in 1..Len(KNOWN_METERS) : ~Contains(KNOWN_METERS[i].verse_start, s)

\* every character of s is whitespace (this includes the empty text)
IsBlank(s) == \A i \in 1..Len(s) : s[i] \in Whitespace

\* identify_chandas has been entered with a text
Called == pc \in {"await1", "await2", "done"}

Done == pc = "done"

\* the i-th reply is a decoded JSON object
IsObject(i) == i <= Len(llm_replies) /\ llm_replies[i].kind = "object"

\* the i-th reply is a decoded JSON object with every required field
IsComplete(i) == IsObject(i) /\ Required \subseteq DOMAIN llm_replies[i].value

\* a re-prompt was issued
Reprompted == Len(llm_requests) = 2

\* the call has ended and holds an LLM result to reconcile: the first answer,
\* complete, when no re-prompt was issued; the re-prompted answer otherwise
HasLLMResult ==
    /\ Done
    /\ Len(llm_replies) = Len(llm_requests)
    /\ \/ ~Reprompted /\ IsComplete(1)
       \/ Reprompted /\ IsObject(2)

\* that LLM result
LLMResult == llm_replies[Len(llm_replies)].value

----------------------------------------------------------------------------
(* Properties *)

\* C1: one identify call invokes the LLM collaborator at most twice,
\* whatever the replies are.
C1_AtMostTwoCalls == Len(llm_requests) <= 2

\* C1 witness: a call ended after two LLM calls although the second answer
\* is again an Anushtubh answer inconsistent with its own counts.
C1_Witness ==
    /\ Done
    /\ Len(llm_requests) = 2
    /\ IsObject(2)
    /\ NeedsReverify(llm_replies[2].value)

\* C2 as stated: for any text containing "dharmakshetre kurukshetre" and any
\* LLM result naming a meter other than Anushtubh, identify returns
\* chandas_name Anushtubh, confidence 0.9, identified_by known_verse_override.
C2_AnyTextOverride ==
    (/\ HasLLMResult
     /\ Contains(DharmakshetreOpening, text.value)
     /\ "chandas_name" \in DOMAIN LLMResult
     /\ LLMResult["chandas_name"] # "Anushtubh")
        => /\ outcome.kind = "return"
           /\ result["chandas_name"] = "Anushtubh"
           /\ result["confidence"] = 90
           /\ result["identified_by"] = "known_verse_override"

\* C2 amended: the same, for texts that contain the opening of no earlier
\* table entry of another meter.
C2_OverrideWhenFirstMatch ==
    (/\ HasLLMResult
     /\ Contains(DharmakshetreOpening, text.value)
     /\ NoEarlierOtherMeter(DharmakshetreOpening, text.value)
     /\ "chandas_name" \in DOMAIN LLMResult
     /\ LLMResult["chandas_name"] # "Anushtubh")
        => /\ outcome.kind = "return"
           /\ result["chandas_name"] = "Anushtubh"
           /\ result["confidence"] = 90
           /\ result["identified_by"] = "known_verse_override"

\* C2 witness: the verse with surrounding whitespace, answered "Jagati", returned as
\* an overridden Anushtubh.
C2_Witness ==
    /\ HasLLMResult
    /\ text.value = <<SP>> \o DharmakshetreOpening
    /\ Get(LLMResult, "chandas_name", None) = "Jagati"
    /\ outcome.kind = "return"
    /\ result["chandas_name"] = "Anushtubh"
    /\ result["identified_by"] = "known_verse_override"

\* C3 as stated: for any text containing "dharmakshetre kurukshetre" and an
\* LLM result naming Anushtubh with confidence 0.8, identify returns
\* confidence 0.9 and identified_by both, whatever counts the result reports.
C3_AnyCountsAgreement ==
    (/\ Done
     /\ Contains(DharmakshetreOpening, text.value)
     /\ IsComplete(1)
     /\ llm_replies[1].value["chandas_name"] = "Anushtubh"
     /\ llm_replies[1].value["confidence"] = 80)
        => /\ outcome.kind = "return"
           /\ result["confidence"] = 90
           /\ result["identified_by"] = "both"

\* C3 amended: for a text containing "dharmakshetre kurukshetre" and the
\* opening of no earlier table entry of another meter, when the LLM result
\* that is reconciled (the first one if no re-prompt is issued, otherwise the
\* re-prompted one) names Anushtubh with confidence 0.8, identify returns
\* confidence 0.9 and identified_by both, whatever counts that result reports.
C3_AgreementOfReconciledResult ==
    (/\ HasLLMResult
     /\ Contains(DharmakshetreOpening, text.value)
     /\ NoEarlierOtherMeter(DharmakshetreOpening, text.value)
     /\ Get(LLMResult, "chandas_name", None) = "Anushtubh"
     /\ "confidence" \in DOMAIN LLMResult
     /\ LLMResult["confidence"] = 80)
        => /\ outcome.kind = "return"
           /\ result["confidence"] = 90
           /\ result["identified_by"] = "both"

\* C3 witness: a re-prompted Anushtubh answer of confidence 0.8 that reports
\* 12-12-12-12 is returned with confidence 0.9 and identified_by both.
C3_Witness ==
    /\ HasLLMResult
    /\ Reprompted
    /\ Contains(DharmakshetreOpening, text.value)
    /\ LLMResult = Answer("Anushtubh", <<12, 12, 12, 12>>, 80)
    /\ result["confidence"] = 90
    /\ result["identified_by"] = "both"

\* C4: a call with an empty or whitespace-only text ends with the 422
\* HTTPException, with no LLM call made and no result produced.
C4_BlankTextRejected ==
    (Called /\ text.type = "str" /\ IsBlank(text.value))
        => /\ Done
           /\ outcome.kind = "HTTPException"
           /\ outcome.status_code = 422
           /\ llm_requests = <<>>
           /\ result = NoResult

\* C4 witness: a whitespace-only text was rejected.
C4_Witness ==
    /\ Done
    /\ text = [type |-> "str", value |-> <<SP, SP>>]
    /\ outcome.status_code = 422

\* some LLM call of this request failed: it raised, returned text that is
\* not JSON, or returned JSON without the required fields
LLMFailed ==
    \E i \in 1..Len(llm_replies) : ~IsComplete(i)

\* C5 as stated: for a valid text, a failure of the LLM collaborator on either
\* call is not raised to the caller; identify returns a result with
\* identified_by algorithmic.
C5_FailureFallsBackToAlgorithmic ==
    (Done /\ text.type = "str" /\ ~IsBlank(text.value) /\ LLMFailed)
        => /\ outcome.kind = "return"
           /\ result["identified_by"] = "algorithmic"

\* C6 as stated: with no LLM collaborator supplied, identification makes no
\* LLM call and returns a result with identified_by algorithmic.
C6_NoCollaboratorIsAlgorithmic ==
    (Done /\ client_arg = None /\ text.type = "str" /\ ~IsBlank(text.value))
        => /\ llm_requests = <<>>
           /\ outcome.kind = "return"
           /\ result["identified_by"] = "algorithmic"

\* the per-pada syllable count the system prompt gives for each meter
CanonicalCount(name) ==
    CASE name = "Anushtubh" -> 8
      [] name = "Trishtubh" -> 11
      [] name = "Jagati" -> 12

\* the reported counts are the canonical four padas of the meter
CountsAgree(name, counts) ==
    counts = <<CanonicalCount(name), CanonicalCount(name),
               CanonicalCount(name), CanonicalCount(name)>>

\* C7 as stated: whatever meter the first LLM result names, a re-prompt is
\* issued exactly when the meter's canonical per-pada count differs from the
\* counts the result reports (stated here for results that report counts).
C7_RepromptForAnyMeter ==
    (/\ Len(llm_replies) >= 1
     /\ IsComplete(1)
     /\ llm_replies[1].value["syllable_count_per_pada"] # <<>>)
        => (Reprompted <=>
                ~CountsAgree(llm_replies[1].value["chandas_name"],
                             llm_replies[1].value["syllable_count_per_pada"]))

\* C7 amended: exactly one re-prompt is issued when the first LLM result
\* names Anushtubh and reports counts that are present and are not 8-8-8-8;
\* no re-prompt is issued for any other meter name, nor for absent counts.
C7_RepromptOnlyForAnushtubh ==
    (Len(llm_replies) >= 1 /\ IsComplete(1))
        => (Reprompted <=>
                /\ llm_replies[1].value["chandas_name"] = "Anushtubh"
                /\ llm_replies[1].value["syllable_count_per_pada"] # <<>>
                /\ ~CountsAgree("Anushtubh",
                                llm_replies[1].value["syllable_count_per_pada"]))

\* C7 witness: an Anushtubh answer reporting 11-11-11-11 was followed by one
\* re-prompt, and the call has ended.
C7_Witness ==
    /\ Done
    /\ IsComplete(1)
    /\ llm_replies[1].value["chandas_name"] = "Anushtubh"
    /\ llm_replies[1].value["syllable_count_per_pada"] = <<11, 11, 11, 11>>
    /\ Len(llm_requests) = 2

\* C8: after a re-prompt, when no known-verse entry is contained in the text,
\* identify returns the second LLM answer, whatever it says, with
\* identified_by LLM_reverified added and nothing else changed.
C8_SecondAnswerAccepted ==
    (Done /\ Reprompted /\ IsObject(2) /\ NoKnownVerse(text.value))
        => /\ outcome.kind = "return"
           /\ result = Put(llm_replies[2].value, "identified_by", "LLM_reverified")

\* C8 witness: a second answer that again names Anushtubh with 12-12-12-12
\* was returned as it is.
C8_Witness ==
    /\ Done
    /\ Reprompted
    /\ NoKnownVerse(text.value)
    /\ IsObject(2)
    /\ llm_replies[2].value = Answer("Anushtubh", <<12, 12, 12, 12>>, 95)
    /\ outcome.kind = "return"
    /\ result["identified_by"] = "LLM_reverified"

\* C9: when a known-verse entry matches, the name compared with the known
\* meter is that of the reconciled LLM result (the re-prompted one after a
\* re-prompt); when they are equal the result has identified_by both and
\* confidence min(LLM confidence + 0.1, 1.0), which is at most 1.0.
C9_AgreementUsesFinalName ==
    (HasLLMResult /\ ~NoKnownVerse(text.value))
        => /\ outcome.kind = "return"
           /\ (result["identified_by"] = "both")
                <=> (Get(LLMResult, "chandas_name", None) = known_meter)
           /\ (Get(LLMResult, "chandas_name", None) = known_meter
                    /\ "confidence" \in DOMAIN LLMResult)
                => /\ result["confidence"] = Min(LLMResult["confidence"] + 10, 100)
                   /\ result["confidence"] <= 100

\* C9 witness: the first answer named Anushtubh, the re-prompted answer names
\* the known meter Trishtubh with confidence 0.95, and the result is both
\* with confidence 1.0.
C9_Witness ==
    /\ HasLLMResult
    /\ Reprompted
    /\ known_meter = "Trishtubh"
    /\ llm_replies[1].value["chandas_name"] = "Anushtubh"
    /\ LLMResult = Answer("Trishtubh", <<11, 11, 11, 11>>, 95)
    /\ result["identified_by"] = "both"
    /\ result["confidence"] = 100

\* C10: when no known-verse entry is contained in the text and the first LLM
\* result triggered no re-prompt, identify returns that result with
\* identified_by LLM added and its meter name and confidence unchanged.
C10_FirstAnswerReturned ==
    (Done /\ ~Reprompted /\ IsComplete(1) /\ NoKnownVerse(text.value))
        => /\ outcome.kind = "return"
           /\ result = Put(llm_replies[1].value, "identified_by", "LLM")
           /\ result["chandas_name"] = llm_replies[1].value["chandas_name"]
           /\ result["confidence"] = llm_replies[1].value["confidence"]

\* C10 witness: a Jagati answer for an unknown verse was returned with
\* identified_by LLM.
C10_Witness ==
    /\ Done
    /\ ~Reprompted
    /\ NoKnownVerse(text.value)
    /\ text.value # <<>>
    /\ IsComplete(1)
    /\ llm_replies[1].value["chandas_name"] = "Jagati"
    /\ result["identified_by"] = "LLM"

\* C11: the known meter is the meter of the first table entry, in table
\* order, whose opening is a substring of the input, and none when no
\* opening is contained; with several openings contained the earliest entry
\* decides.
C11_FirstMatchInTableOrder ==
    (Called /\ text.type = "str" /\ ~IsBlank(text.value))
        => /\ NoKnownVerse(text.value) => known_meter = None
           /\ \A i \in 1..Len(KNOWN_METERS) :
                (/\ Contains(KNOWN_METERS[i].verse_start, text.value)
                 /\ \A j \in 1..(i - 1) :
                        ~Contains(KNOWN_METERS[j].verse_start, text.value))
                    => known_meter = KNOWN_METERS[i].meter

\* C11 witness: the text holds the opening of entry 6 (Anushtubh) and then
\* the opening of entry 1 (Trishtubh); the known meter is that of entry 1.
C11_Witness ==
    /\ Called
    /\ text.value = DharmakshetreOpening \o <<"yada yada hi dharmasya">>
    /\ known_meter = "Trishtubh"

\* C12 as stated: every result identify returns has a confidence between
\* 0.0 and 1.0, whatever confidence the LLM replies carry.
C12_ConfidenceInUnitInterval ==
    (Done /\ outcome.kind = "return" /\ "confidence" \in DOMAIN result)
        => (0 <= result["confidence"] /\ result["confidence"] <= 100)

\* C13 as stated: every result identify returns, on every path, has the
\* eight required fields and identified_by.
C13_ResultHasAllFields ==
    (Done /\ outcome.kind = "return")
        => (Required \cup {"identified_by"}) \subseteq DOMAIN result

\* the library was reached with a str verse and gave no result
NoLibraryResult ==
    /\ metre_info.kind # "pending"
    /\ verse.type = "str"
    /\ \/ library.kind \in {"None", "falsy"}
       \/ library.kind = "dict" /\ library.value = <<>>

\* C14: ChandasService.identify_metre always returns a dict, whatever the
\* library does, and when the library yields no result the dict has metre
\* "Unknown", confidence 0.0 and detected False.
C14_NoMatchIsReported ==
    (metre_info.kind # "pending")
        => /\ metre_info.kind = "return"
           /\ NoLibraryResult
                => /\ metre_info.value["metre"] = "Unknown"
                   /\ metre_info.value["confidence"] = 0
                   /\ metre_info.value["detected"] = FALSE

C14_Witness ==
    /\ NoLibraryResult
    /\ library.kind = "None"
    /\ verse.value = DharmakshetreOpening
    /\ metre_info = [kind |-> "return", value |-> UnknownInfo]

\* C15 as stated: for a request with a non-blank shloka the route gives the
\* shloka text to the controller and answers with the controller's result,
\* not with an error.
C15_RouteReturnsIdentification ==
    (response # Pending /\ ~IsBlank(request.shloka))
        => /\ text.type = "str"
           /\ text.value = request.shloka
           /\ response.kind = "return"

\* equality of rational numbers
RatEq(a, b) == a.num * b.den = b.num * a.den

Matched == match.stage # "pending"

\* the catalog entries whose canonicalPattern equals the verse's weight
\* pattern as the matcher reads it
ExactEntries ==
    {i \in 1..Len(catalog) :
        catalog[i].canonicalPattern = MatchingPattern(verse_weights)}

\* the catalog entries whose per-pada counts are the verse's
CountEntries ==
    {i \in 1..Len(catalog) :
        catalog[i].syllablesPerPada = SyllableCountPerPada(verse_weights)}

\* matching positions of catalog entry i
Matching(i) == Score(catalog[i], MatchingPattern(verse_weights))

TotalPositions == Len(MatchingPattern(verse_weights))

\* C16: a verse whose weight pattern equals a catalog meter's
\* canonicalPattern is answered by the exact-match stage with that meter and
\* confidence exactly 1.0, whatever the count-based stage would answer.
C16_ExactMatchFirst ==
    Matched =>
        \A i \in ExactEntries :
            /\ match.stage = "exact"
            /\ match.meterName = catalog[i].name
            /\ RatEq(match.confidence, Ratio(1, 1))

C16_Witness ==
    /\ Matched
    /\ Len(catalog) = 2
    /\ catalog[1].canonicalPattern = NoPattern
    /\ CountEntries = {1, 2}
    /\ ExactEntries = {2}
    /\ match.meterName = catalog[2].name

\* C17: without an exact match the answer comes from the meters whose
\* syllablesPerPada equals the verse's counts: none gives "Unknown" with 0.0,
\* exactly one gives that meter with 0.85, several give one with the most
\* matching positions and confidence max(0.5, matching / total).
C17_CountBasedStage ==
    (Matched /\ ExactEntries = {}) =>
        /\ CountEntries = {}
            => match.meterName = "Unknown" /\ RatEq(match.confidence, Ratio(0, 1))
        /\ Cardinality(CountEntries) = 1
            => \A i \in CountEntries :
                   /\ match.meterName = catalog[i].name
                   /\ RatEq(match.confidence, Ratio(85, 100))
        /\ Cardinality(CountEntries) > 1
            => \E i \in CountEntries :
                   /\ match.meterName = catalog[i].name
                   /\ \A j \in CountEntries : Matching(j) <= Matching(i)
                   /\ IF 2 * Matching(i) >= TotalPositions
                      THEN RatEq(match.confidence, Ratio(Matching(i), TotalPositions))
                      ELSE RatEq(match.confidence, Ratio(1, 2))

C17_Witness ==
    /\ Matched
    /\ ExactEntries = {}
    /\ Cardinality(CountEntries) = 2
    /\ \E i \in CountEntries :
           /\ match.meterName = catalog[i].name
           /\ Matching(i) = 3
           /\ \E j \in CountEntries : Matching(j) < 3
    /\ RatEq(match.confidence, Ratio(3, 4))

\* C18: among count-matching candidates with the same highest position
\* score the matcher returns the earliest in catalog order.
C18_TieBreakCatalogOrder ==
    (Matched /\ ExactEntries = {} /\ Cardinality(CountEntries) > 1) =>
        \A i \in CountEntries :
            (\A j \in CountEntries : Matching(j) <= Matching(i))
                => \E k \in 1..i : match.meterName = catalog[k].name

C18_Witness ==
    /\ Matched
    /\ Len(catalog) = 2
    /\ catalog[1].name = "B"
    /\ catalog[2].name = "A"
    /\ verse_weights = << <<"G", "L">>, <<"L", "G">> >>
    /\ Matching(1) = 3
    /\ Matching(2) = 3
    /\ match.meterName = "B"

\* C19: the ganas are the names of the consecutive non-overlapping
\* triplets of the pattern, 3 x (number of ganas) + (remainder length) is the
\* pattern length with a remainder of 0, 1 or 2 weights, the remainder is the
\* pattern's own tail, and the 8 triplets map one-to-one onto the 8 names.
C19_GanaCoverage ==
    (gana.state = "done") =>
        /\ 3 * Len(gana.ganaPattern) + Len(gana.remainder) = Len(weight_pattern)
        /\ Len(gana.remainder) \in {0, 1, 2}
        /\ gana.remainder =
              SubSeq(weight_pattern, 3 * Len(gana.ganaPattern) + 1, Len(weight_pattern))
        /\ \A i \in 1..Len(gana.ganaPattern) :
              \E t \in Triplets :
                  /\ t = SubSeq(weight_pattern, 3 * i - 2, 3 * i)
                  /\ gana.ganaPattern[i] = GanaName(t)
        /\ \A t, u \in Triplets : GanaName(t) = GanaName(u) => t = u
        /\ {GanaName(t) : t \in Triplets} = GanaNames

C19_Witness ==
    /\ gana.state = "done"
    /\ weight_pattern = <<"L", "G", "G", "G", "G", "G", "L">>
    /\ gana.ganaPattern = <<"ya", "ma">>
    /\ gana.remainder = <<"L">>

\* C20: the entries of syllableCountPerPada add up to the number of
\* syllables the segmenter produced, weightPattern has that length, and each
\* of its characters is L or G.
C20_SegmentationCoverage ==
    (analysis.state = "done") =>
        /\ Sum(analysis.syllableCountPerPada) = Len(analysis.syllableBreakdown)
        /\ Len(analysis.weightPattern) = Len(analysis.syllableBreakdown)
        /\ \A i \in 1..Len(analysis.weightPattern) :
              analysis.weightPattern[i] \in Weights

C20_Witness ==
    /\ analysis.state = "done"
    /\ verse_text = << <<"a", "x">>, <<"C", "A">> >>
    /\ analysis.syllableCountPerPada = <<1, 1>>
    /\ analysis.weightPattern = <<"L", "G">>
    /\ analysis.skipped

\* the counts the first reply reported
ReportedCounts == llm_replies[1].value["syllable_count_per_pada"]

\* the corrective user prompt of the second call
CorrectivePrompt == llm_requests[2][Len(llm_requests[2])].content

\* C21: the corrective re-prompt states the reported counts, hints at Jagati
\* exactly when every reported count is 12, at Trishtubh exactly when every
\* reported count is 11, and carries no hint for other counts.
C21_HintFollowsCounts ==
    Reprompted =>
        /\ CorrectivePrompt.pada_counts = ReportedCounts
        /\ CorrectivePrompt.hint = "Jagati (12-12-12-12)"
              <=> \A i \in 1..Len(ReportedCounts) : ReportedCounts[i] = 12
        /\ CorrectivePrompt.hint = "Trishtubh (11-11-11-11)"
              <=> \A i \in 1..Len(ReportedCounts) : ReportedCounts[i] = 11
        /\ CorrectivePrompt.hint
              \in {"Jagati (12-12-12-12)", "Trishtubh (11-11-11-11)", ""}

C21_Witness ==
    /\ Reprompted
    /\ ReportedCounts = <<11, 12, 11, 12>>
    /\ CorrectivePrompt.hint = ""

\* the list object the first call was given: the local list `messages`, as
\* it is now
LogGivenToFirstCall == messages

\* the log as the first call saw it, then the first reply as an assistant
\* turn, then the corrective user prompt
ExpectedRepromptLog ==
    llm_requests[1]
        \o <<[role |-> "assistant", content |-> llm_replies[1]],
             [role |-> "user", content |-> ReverifyPrompt(ReportedCounts)]>>

\* C22 as stated: the re-prompt call receives the original log followed by
\* the assistant turn and the corrective prompt, and the log given to the
\* first call is not mutated.
C22_RepromptLogIsNewValue ==
    Reprompted =>
        /\ llm_requests[2] = ExpectedRepromptLog
        /\ LogGivenToFirstCall = llm_requests[1]

\* C22 amended: the re-prompt call receives the original log (system prompt,
\* then the stripped verse) followed by the assistant turn and the corrective
\* prompt, in that order, with the earlier entries unchanged; it is the list
\* given to the first call, extended in place.
C22_RepromptExtendsLogInPlace ==
    Reprompted =>
        /\ llm_requests[1] = InitialMessages(text, known_meter)
        /\ llm_requests[2] = ExpectedRepromptLog
        /\ LogGivenToFirstCall = llm_requests[2]

C22_Witness ==
    /\ Reprompted
    /\ Len(llm_requests[2]) = 4
    /\ llm_requests[2][3].role = "assistant"
    /\ llm_requests[2][4].role = "user"
    /\ ReportedCounts = <<12, 12, 12, 12>>
    /\ LogGivenToFirstCall # llm_requests[1]

\* what one identify_chandas call returns or raises when it runs alone with
\* text t and the LLM replies in the given order
RunAlone(t, replies) ==
    IF InvalidInput(t)
    THEN [outcome |-> HTTPException(422, "Input text must be a non-empty string."),
          result |-> NoResult]
    ELSE LET km == KnownVerseLookup(t.value)
             first == JsonLoads(replies[1])
         IN  IF replies[1].kind = "raise"
             THEN [outcome |-> HTTPException(500, "Internal error"), result |-> NoResult]
             ELSE IF ~first.ok
             THEN [outcome |-> HTTPException(500, "Failed to parse LLM response as JSON"),
                   result |-> NoResult]
             ELSE IF NotIterable(first)
             THEN [outcome |-> HTTPException(500, "Internal error"), result |-> NoResult]
             ELSE IF Missing(first) # {}
             THEN [outcome |-> HTTPException(500, "LLM response missing required fields"),
                   result |-> NoResult]
             ELSE IF ~first.is_dict
             THEN [outcome |-> HTTPException(500, "Internal error"), result |-> NoResult]
             ELSE IF ~NeedsReverify(first.value)
             THEN [outcome |-> Returned,
                   result |-> Reconcile(km.known_meter, km.identified_by, first.value).result]
             ELSE LET second == JsonLoads(replies[2])
                  IN  IF replies[2].kind = "raise" \/ ~second.ok \/ ~second.is_dict
                      THEN [outcome |-> HTTPException(500, "Internal error"),
                            result |-> NoResult]
                      ELSE [outcome |-> Returned,
                            result |->
                               Reconcile(km.known_meter, "LLM_reverified", second.value).result]

\* a call owns its working data: its known-verse match and its message log
\* come from its own text and its own replies
OwnsItsData(f) ==
    (f.pc \in {"await1", "await2", "done"} /\ ~InvalidInput(f.text)) =>
        /\ f.known_meter = KnownVerseLookup(f.text.value).known_meter
        /\ f.llm_requests[1] = InitialMessages(f.text, f.known_meter)
        /\ Len(f.llm_requests) = 2 =>
              f.llm_requests[2] =
                  f.llm_requests[1]
                      \o <<[role |-> "assistant", content |-> f.llm_replies[1]],
                           [role |-> "user",
                            content |->
                               ReverifyPrompt(
                                   f.llm_replies[1].value["syllable_count_per_pada"])]>>
        /\ f.messages = f.llm_requests[Len(f.llm_requests)]

\* an ended call ended as it would have ended alone
EndsAsAlone(f) ==
    (f.pc = "done") =>
        LET alone == RunAlone(f.text, f.llm_replies)
        IN  /\ f.outcome = alone.outcome
            /\ f.outcome.kind = "return"
                  => /\ f.result = alone.result
                     /\ f.identified_by = alone.result["identified_by"]

\* C23: two calls on one controller, interleaved at the LLM awaits, do not
\* interfere: each owns its message log, known-verse match, identified_by and
\* result, and ends as it would end alone with its text and its replies.
C23_CallsDoNotInterfere ==
    \A f \in {CurrentFrame, suspended} : OwnsItsData(f) /\ EndsAsAlone(f)

C23_Witness ==
    /\ Done
    /\ suspended.pc = "done"
    /\ outcome.kind = "return"
    /\ suspended.outcome.kind = "return"
    /\ known_meter = "Anushtubh"
    /\ suspended.known_meter = "Trishtubh"
    /\ Len(llm_requests) = 2
    /\ Len(suspended.llm_requests) = 2
    /\ result["identified_by"] = "both"
    /\ suspended.result["identified_by"] = "known_verse_override"

\* C24 as stated: over all calls of get_meaning_controller, from any thread,
\* at most one MeaningController is constructed and every caller receives the
\* same instance.
C24_SingletonAccessor ==
    /\ constructed <= 1
    /\ \A t, u \in Threads :
          \A i \in 1..Len(received[t]) :
              \A j \in 1..Len(received[u]) : received[t][i] = received[u][j]

\* the table entry the lookup stops at: the first whose opening the text contains
\* the opening occurs in the text, chunk by chunk
Occurs(opening, s) ==
    \E i \in 1..(Len(s) - Len(opening) + 1) :
        \A k \in 1..Len(opening) : s[i + k - 1] = opening[k]

\* the table entries whose opening occurs in the text
Matches == {i \in 1..Len(KNOWN_METERS) : Occurs(KNOWN_METERS[i].verse_start, text.value)}

LookupEntry ==
    LET matching == Matches
    IN  KNOWN_METERS[CHOOSE i \in matching : \A j \in matching : i <= j]

\* identify_chandas returned a result for a text with a known-verse match
ReturnedForKnownVerse ==
    /\ Done
    /\ outcome = Returned
    /\ Matches # {}

\* C25: when a known-verse entry matches the input (the entry the lookup stops
\* at) and identify returns a result, the result's chandas_name is that
\* entry's meter and its identified_by is "both" or "known_verse_override",
\* never "known_verse", "LLM" or "LLM_reverified", re-prompt or not.
C25_KnownVerseDecidesNameAndSource ==
    ReturnedForKnownVerse
        => /\ result["chandas_name"] = LookupEntry.meter
           /\ result["identified_by"] \in {"both", "known_verse_override"}
           /\ result["identified_by"] \notin {"known_verse", "LLM", "LLM_reverified"}
           /\ identified_by = result["identified_by"]

\* C25 witness: a known verse, re-prompted, whose second answer names another
\* meter, returned under the entry's meter as a known_verse_override.
C25_Witness ==
    /\ ReturnedForKnownVerse
    /\ Reprompted
    /\ Get(LLMResult, "chandas_name", None) # LookupEntry.meter
    /\ result["chandas_name"] = LookupEntry.meter
    /\ result["identified_by"] = "known_verse_override"

\* the fields the known-verse override writes
OverriddenFields == {"chandas_name", "confidence", "explanation", "identified_by"}

\* the note put before the explanation: "Known verse identified as <meter>. "
OverrideNote == <<"Known verse identified as", LookupEntry.meter>>

\* identify_chandas returned after overriding the LLM's meter name
Overridden ==
    /\ ReturnedForKnownVerse
    /\ HasLLMResult
    /\ Get(LLMResult, "chandas_name", None) # LookupEntry.meter

\* C26: the known-verse override changes only chandas_name, confidence,
\* explanation and identified_by of the LLM result; every other field is
\* returned exactly as the LLM reported it (and no field is added or lost), and
\* the new explanation is the note followed by the LLM's own explanation.
C26_OverrideFrame ==
    Overridden
        => /\ DOMAIN result \ OverriddenFields = DOMAIN LLMResult \ OverriddenFields
           /\ \A k \in DOMAIN LLMResult \ OverriddenFields : result[k] = LLMResult[k]
           /\ result["explanation"]
                = OverrideNote \o Get(LLMResult, "explanation", <<>>)

\* C26 witness: an overridden complete answer: the counts the LLM reported are
\* returned under the entry's meter, and the explanation starts with the note.
C26_Witness ==
    /\ Overridden
    /\ ~Reprompted
    /\ LLMResult["chandas_name"] = "Jagati"
    /\ result["chandas_name"] = "Anushtubh"
    /\ result["syllable_count_per_pada"] = <<12, 12, 12, 12>>
    /\ result["explanation"] = OverrideNote \o <<"explanation">>

\* the i-th completion call raised
CallRaised(i) == i <= Len(llm_replies) /\ llm_replies[i].kind = "raise"

\* the i-th completion returned text that json.loads rejects
Unparsable(i) == i <= Len(llm_replies) /\ llm_replies[i].kind = "invalid"

\* the i-th completion returned JSON that lacks a required field
Incomplete(i) ==
    /\ i <= Len(llm_replies)
    /\ \/ llm_replies[i].kind = "object"
          /\ ~(Required \subseteq DOMAIN llm_replies[i].value)
       \/ llm_replies[i].kind = "array"
          /\ \E k \in Required :
                \A j \in 1..Len(llm_replies[i].value.members) :
                    llm_replies[i].value.members[j] # k

\* the first completion decoded to something that is not an object and that
\* the test of the required names does not reject: a number, or an array
\* holding every required name
OtherNonObject(i) ==
    /\ i <= Len(llm_replies)
    /\ llm_replies[i].kind \in {"number", "array"}
    /\ ~Incomplete(i)

\* C27: identify_chandas ends by returning a result or raising an
\* HTTPException, nothing else: 422 for a blank (or non-string) input, 500 with
\* its own detail for an unparsable or incomplete first response, and 500
\* "Internal error" for every other exception (a failing LLM call, a first
\* response that is no object yet passes or breaks the test of the names, a
\* second response that is not JSON or not an object).
C27_ReturnsOrRaisesHTTPException ==
    Done
        => /\ outcome.kind \in {"return", "HTTPException"}
           /\ outcome.kind = "HTTPException" => outcome.status_code \in {422, 500}
           /\ InvalidInput(text)
                => outcome = HTTPException(422, "Input text must be a non-empty string.")
           /\ Unparsable(1)
                => outcome = HTTPException(500, "Failed to parse LLM response as JSON")
           /\ Incomplete(1)
                => outcome = HTTPException(500, "LLM response missing required fields")
           /\ (CallRaised(1) \/ CallRaised(2) \/ Unparsable(2)
                 \/ OtherNonObject(1)
                 \/ (Len(llm_replies) = 2 /\ ~IsObject(2)))
                => outcome = HTTPException(500, "Internal error")
           /\ outcome.kind = "return"
                => /\ ~InvalidInput(text)
                   /\ IsComplete(1)
                   /\ Reprompted => IsObject(2)

\* C27 witness: a re-prompt answered with text that is not JSON: the decoding
\* error leaves identify_chandas as an HTTPException with status 500.
C27_Witness ==
    /\ Done
    /\ Reprompted
    /\ Unparsable(2)
    /\ outcome.kind = "HTTPException"
    /\ outcome.status_code = 500
    /\ outcome.detail = "Internal error"

\* C28 as stated: when the chat route has returned or raised, no temporary
\* audio or image file it created exists any more, whether the upload read,
\* the controller call or the response succeeded or failed.
C28_TempFilesDeleted ==
    chat_pc = "done" => temp_files = {}

\* the four keys of a meaning
MeaningKeys == {"translation", "word_meanings", "context", "notes"}

\* the response text holds nothing but the given document, possibly inside a
\* json fence or a plain fence and after a line of prose
Carries(doc) ==
    response_text \in {<<doc>>, <<SP, doc, SP>>,
                       <<FenceJson, doc, Fence>>,
                       <<FenceJson, SP, doc, Fence>>,
                       <<Fence, doc, Fence>>,
                       <<"Here is the translation:", FenceJson, doc, Fence>>,
                       <<"Here is the translation:", Fence, doc, Fence>>}

\* no object document occurs in the response text
NoObjectInText ==
    \A i \in 1..Len(response_text) :
        response_text[i] \notin {ObjectText, EmptyObjectText}

\* C29: _parse_llm_response never raises; for every response text (fenced,
\* unfenced, invalid JSON, JSON that is not an object) it returns a dictionary
\* with the keys translation, word_meanings, context and notes: the decoded
\* object completed with defaults, or the fixed fallback dictionary when the
\* text does not decode to an object.
C29_ParseNeverRaises ==
    parsed.outcome # "pending"
        => /\ parsed.outcome = "return"
           /\ MeaningKeys \subseteq DOMAIN parsed.value
           /\ NoObjectInText => parsed.value = FallbackMeaning
           /\ Carries(ArrayText) \/ Carries(NumberText)
                \/ Carries("Here is the translation:")
                => parsed.value = FallbackMeaning
           /\ Carries(EmptyObjectText)
                => parsed.value = [translation |-> "", word_meanings |-> <<>>,
                                   context |-> "", notes |-> ""]
           /\ Carries(ObjectText)
                => parsed.value = [translation |-> "dharma", meter |-> "Anushtubh",
                                   word_meanings |-> <<>>, context |-> "",
                                   notes |-> ""]
           /\ parsed.value # FallbackMeaning
                => \/ parsed.value["translation"] = "dharma"
                   \/ parsed.value["translation"] = ""

\* C29 witness: a JSON array inside a json fence after a line of prose: the
\* text decodes, is not an object, and the fallback dictionary is returned.
C29_Witness ==
    /\ response_text = <<"Here is the translation:", FenceJson, ArrayText, Fence>>
    /\ parsed.outcome = "return"
    /\ parsed.value = FallbackMeaning

====
